---- MODULE Spec2Model ----
(***************************************************************************)
(* Part identity resolution and price aggregation of the auto-parts        *)
(* procurement application (src/app.py), modelled over its SQLite tables.  *)
(*                                                                         *)
(* Text values are sequences of characters so that Python's str.upper /    *)
(* str.strip and SQLite's UPPER / TRIM can be modelled by what they do:    *)
(*   "b"  / "B"   an ASCII letter, lower and upper case                    *)
(*   "zh" / "ZH"  a Cyrillic letter, lower and upper case                  *)
(*   " "          a space                                                  *)
(* Python folds both letters, SQLite's built-in UPPER folds ASCII only.    *)
(* Row ids are positions in the table sequences (AUTOINCREMENT); 0 is      *)
(* Python's None for an id, <<>> is None for an optional value and <<v>>   *)
(* is the value v.                                                         *)
(***************************************************************************)
EXTENDS Integers, Sequences, FiniteSets, TLC

VARIABLES
    brands,               \* brands: sequence of display names, id = position
    brand_synonyms,       \* brand_synonyms: set of [brand_id, synonym_name]
    parts_catalog,        \* parts_catalog: sequence of part rows, id = position
    price_lists,          \* price_lists: sequence of [supplier_id, upload_date, is_active]
    prices,               \* prices: sequence of [price_list_id, part_id, price]
    currency_rates,       \* currency_rates: sequence of [currency_code, rate_to_rub, created_at]
    expected_sale_prices, \* expected_sale_prices: part ids referenced by its rows
    sales_statistics,     \* sales_statistics: part ids referenced by its rows
    delivery_costs,       \* delivery_costs joined with regions: region name -> rule
    analysis_cache,       \* flask-caching entry of the /analysis view, <<>> when absent
    response,           \* what the last handler returned
    first_brand,          \* history: normalized key -> id first returned by get_or_create_brand
    first_part,           \* history: <<raw brand, article>> -> part id first resolved
    uploaded,             \* history: row lists already ingested by upload_file
    calls,                \* the find-or-create calls in progress, by caller
    transaction           \* the open write transaction: <<>> or <<[owner, tables]>>

vars == <<brands, brand_synonyms, parts_catalog, price_lists, prices,
          currency_rates, expected_sale_prices, sales_statistics,
          delivery_costs, analysis_cache, response, first_brand, first_part,
          uploaded, calls, transaction>>

catalogVars == <<parts_catalog, expected_sale_prices, sales_statistics>>
priceVars == <<price_lists, prices, currency_rates, delivery_costs, analysis_cache>>
historyVars == <<first_brand, first_part, uploaded>>
sessionVars == <<calls, transaction>>

----------------------------------------------------------------------------
(* Bounds *)

MaxBrands == 3
MaxSynonyms == 2
MaxParts == 2
MaxPriceLists == 2
MaxRates == 4
MaxOrderLines == 2
MaxRegionLists == 3
MaxWeight == 5
MaxAmount == 4
MaxBatchRows == 2

----------------------------------------------------------------------------
(* Text *)

Alphabet == {"b", "B", "zh", "ZH", " "}

\* str.upper() of one character: Unicode-aware
PyUpperChar(c) == CASE c = "b" -> "B" [] c = "zh" -> "ZH" [] OTHER -> c

\* SQLite UPPER() of one character: only ASCII letters are folded
SqlUpperChar(c) == IF c = "b" THEN "B" ELSE c

PyUpper(s) == [i \in 1..Len(s) |-> PyUpperChar(s[i])]

SqlUpper(s) == [i \in 1..Len(s) |-> SqlUpperChar(s[i])]

RECURSIVE StripLeft(_)
StripLeft(s) == IF s # <<>> /\ Head(s) = " " THEN StripLeft(Tail(s)) ELSE s

RECURSIVE StripRight(_)
StripRight(s) ==
    IF s # <<>> /\ s[Len(s)] = " " THEN StripRight(SubSeq(s, 1, Len(s) - 1)) ELSE s

\* str.strip()
PyStrip(s) == StripRight(StripLeft(s))

\* SQLite TRIM(): removes spaces from both ends
SqlTrim(s) == StripRight(StripLeft(s))

\* the raw brand names that requests and spreadsheet rows carry
BrandNames == {<<"b">>, <<"B">>, <<" ", "b">>, <<"zh">>, <<"ZH">>}

\* brand_name.upper().strip()
NormalizedKey(brand_name) == PyStrip(PyUpper(brand_name))

\* the raw brand names without a visible character: "" and " "
BlankNames == {<<>>, <<" ">>}

Keys == {NormalizedKey(n) : n \in BrandNames \cup BlankNames}

\* article codes as normalize_article leaves them; "" is the empty article
Articles == {"X", "Y"}

----------------------------------------------------------------------------
(* Brand resolver *)

\* find_brand_by_name: the ids fetchone() may return, {0} for None
find_brand_by_name(brand_name, B, S) ==
    IF brand_name = <<>> THEN {0}
    ELSE LET normalized_name == PyStrip(PyUpper(brand_name))
             brand == {i \in 1..Len(B) : SqlUpper(SqlTrim(B[i])) = normalized_name}
             synonym == {s.brand_id : s \in
                            {t \in S : SqlUpper(SqlTrim(t.synonym_name)) = normalized_name}}
         IN  IF brand # {} THEN brand
             ELSE IF synonym # {} THEN synonym
             ELSE {0}

\* INSERT INTO brands (name): brands.name is UNIQUE, a duplicate raises IntegrityError
BrandNameTaken(name, B) == \E i \in 1..Len(B) : B[i] = name

\* get_or_create_brand: the outcomes of one call on tables B, S
get_or_create_brand(brand_name, B, S) ==
    IF brand_name = <<>>
    THEN {[brand_id |-> 0, brands |-> B, brand_synonyms |-> S,
           raised |-> FALSE, created |-> FALSE]}
    ELSE LET normalized_name == PyStrip(PyUpper(brand_name))
             found == find_brand_by_name(normalized_name, B, S)
         IN  IF found # {0}
             THEN {[brand_id |-> i, brands |-> B, brand_synonyms |-> S,
                    raised |-> FALSE, created |-> FALSE] : i \in found}
             ELSE IF BrandNameTaken(PyStrip(brand_name), B)
             THEN {[brand_id |-> 0, brands |-> B, brand_synonyms |-> S,
                    raised |-> TRUE, created |-> FALSE]}
             ELSE {[brand_id |-> Len(B) + 1,
                    brands |-> Append(B, PyStrip(brand_name)),
                    brand_synonyms |->
                        IF normalized_name # PyUpper(brand_name)
                        THEN S \cup {[brand_id |-> Len(B) + 1,
                                      synonym_name |-> normalized_name]}
                        ELSE S,
                    raised |-> FALSE, created |-> TRUE]}

----------------------------------------------------------------------------
(* Stores after init_db *)

\* init_db default_rates: USD 95, EUR 102, CNY 13, one row each
DefaultRates ==
    << [currency_code |-> "USD", rate_to_rub |-> 95, created_at |-> 1],
       [currency_code |-> "EUR", rate_to_rub |-> 102, created_at |-> 2],
       [currency_code |-> "CNY", rate_to_rub |-> 13, created_at |-> 3] >>

\* init_db default_regions; the names stand for the code's region names
DefaultRegions == {"China", "Japan", "UAE", "Germany", "Russia"}

\* init_db: every region starts with 150 per kg and a minimum of 500
DefaultDelivery == [cost_per_kg |-> 150, min_cost |-> 500]

\* the request handlers that may run at the same time, each on its own
\* connection
Callers == {1, 2}

\* a caller that is not inside get_or_create_part_in_catalog
IdleCall ==
    [pc |-> "idle", brand_name |-> <<>>, article |-> "", brand_id |-> 0,
     part_id |-> 0]

\* a handler's response that carries nothing but the handler's name
Ack(op) == [op |-> op]

Init ==
    /\ brands = <<>>
    /\ brand_synonyms = {}
    /\ parts_catalog = <<>>
    /\ price_lists = <<>>
    /\ prices = <<>>
    /\ currency_rates = DefaultRates
    /\ delivery_costs = [r \in DefaultRegions |-> DefaultDelivery]
    /\ expected_sale_prices = {}
    /\ sales_statistics = {}
    /\ analysis_cache = <<>>
    /\ response = Ack("init_db")
    /\ first_brand = [k \in Keys |-> 0]
    /\ first_part = [k \in BrandNames \X Articles |-> 0]
    /\ uploaded = {}
    /\ calls = [c \in Callers |-> IdleCall]
    /\ transaction = <<>>

----------------------------------------------------------------------------
(* Brand directory operations *)

\* one call of get_or_create_brand, committed by its caller
ResolveOrCreateBrand(brand_name) ==
    \E o \in get_or_create_brand(brand_name, brands, brand_synonyms) :
        /\ Len(o.brands) <= MaxBrands
        /\ brands' = o.brands
        /\ brand_synonyms' = o.brand_synonyms
        /\ response' = [op |-> "get_or_create_brand", name |-> brand_name,
                        brand_id |-> o.brand_id, raised |-> o.raised,
                        created |-> o.created,
                        repeated |-> first_brand[NormalizedKey(brand_name)] # 0]
        /\ first_brand' =
              IF first_brand[NormalizedKey(brand_name)] = 0 /\ ~o.raised
              THEN [first_brand EXCEPT ![NormalizedKey(brand_name)] = o.brand_id]
              ELSE first_brand
        /\ UNCHANGED <<catalogVars, priceVars, first_part, uploaded, sessionVars>>

\* POST /api/brands
ApiBrandsPost(name) ==
    LET brand_name == PyStrip(name)
        existing_brand == {i \in 1..Len(brands) : SqlUpper(brands[i]) = SqlUpper(brand_name)}
    IN  /\ Len(brands) < MaxBrands
        /\ IF brand_name = <<>> \/ existing_brand # {} \/ BrandNameTaken(brand_name, brands)
           THEN /\ brands' = brands
                /\ response' = [op |-> "api_brands", status |-> 400]
           ELSE /\ brands' = Append(brands, brand_name)
                /\ response' = [op |-> "api_brands", status |-> 200]
        /\ UNCHANGED <<brand_synonyms, catalogVars, priceVars, historyVars, sessionVars>>

\* POST /api/brand_synonyms
ApiBrandSynonymsPost(brand_id, name) ==
    LET synonym_name == PyUpper(PyStrip(name))
        existing_synonym == {t \in brand_synonyms : SqlUpper(t.synonym_name) = synonym_name}
    IN  /\ Cardinality(brand_synonyms) < MaxSynonyms
        /\ IF brand_id = 0 \/ synonym_name = <<>> \/ existing_synonym # {}
           THEN /\ brand_synonyms' = brand_synonyms
                /\ response' = [op |-> "api_brand_synonyms", status |-> 400]
           ELSE /\ brand_synonyms' = brand_synonyms \cup
                        {[brand_id |-> brand_id, synonym_name |-> synonym_name]}
                /\ response' = [op |-> "api_brand_synonyms", status |-> 200]
        /\ UNCHANGED <<brands, catalogVars, priceVars, historyVars, sessionVars>>

\* DELETE /api/brand_synonyms?id=
ApiBrandSynonymsDelete(row) ==
    /\ row \in brand_synonyms
    /\ brand_synonyms' = brand_synonyms \ {row}
    /\ response' = [op |-> "api_brand_synonyms_delete", status |-> 200]
    /\ UNCHANGED <<brands, catalogVars, priceVars, historyVars, sessionVars>>

\* ingestion resolving brands row after row
NextResolve == \E n \in BrandNames : ResolveOrCreateBrand(n)

SpecResolve == Init /\ [][NextResolve]_vars

\* brand resolution of names with and without visible characters
NextBlank == \E n \in BrandNames \cup BlankNames : ResolveOrCreateBrand(n)

SpecBlank == Init /\ [][NextBlank]_vars

\* brand resolution interleaved with the brand and synonym administration
NextBrand ==
    \/ \E n \in BrandNames : ResolveOrCreateBrand(n)
    \/ \E n \in BrandNames : ApiBrandsPost(n)
    \/ \E b \in 1..Len(brands), n \in BrandNames : ApiBrandSynonymsPost(b, n)
    \/ \E row \in brand_synonyms : ApiBrandSynonymsDelete(row)

SpecBrand == Init /\ [][NextBrand]_vars

----------------------------------------------------------------------------
(* Catalog matcher and ingestion *)

\* the tables one ingestion handler works on before its commit, with the part
\* ids it resolved so far and whether an exception aborted it
Work(B, S, P, R) ==
    [brands |-> B, brand_synonyms |-> S, parts_catalog |-> P, prices |-> R,
     expected |-> {}, resolved |-> <<>>, added_count |-> 0, raised |-> FALSE]

\* INSERT INTO parts_catalog
NewPart(brand_id, main_article, additional_article, name_ru, weight) ==
    [brand_id |-> brand_id, main_article |-> main_article,
     additional_article |-> additional_article, name_ru |-> name_ru,
     weight |-> weight]

\* get_or_create_part_in_catalog: the outcomes of one call on the tables of w
get_or_create_part_in_catalog(brand_name, article, w) ==
    IF brand_name = <<>> \/ article = ""
    THEN {[w |-> w, part_id |-> 0]}
    ELSE UNION {
        IF o.raised
        THEN {[w |-> [w EXCEPT !.raised = TRUE], part_id |-> 0]}
        ELSE IF o.brand_id = 0
        THEN {[w |-> w, part_id |-> 0]}
        ELSE LET w1 == [w EXCEPT !.brands = o.brands,
                                 !.brand_synonyms = o.brand_synonyms]
                 part == {i \in 1..Len(w.parts_catalog) :
                             /\ w.parts_catalog[i].brand_id = o.brand_id
                             /\ w.parts_catalog[i].main_article = article}
             IN  IF part # {}
                 THEN {[w |-> w1, part_id |-> i] : i \in part}
                 ELSE {[w |-> [w1 EXCEPT !.parts_catalog =
                                   Append(@, NewPart(o.brand_id, article, <<>>, <<>>, <<>>))],
                        part_id |-> Len(w.parts_catalog) + 1]}
        : o \in get_or_create_brand(brand_name, w.brands, w.brand_synonyms) }

\* a plausible slip: the incoming value is written whenever the row has one
fill_always(stored, incoming) ==
    IF incoming # <<>> THEN incoming ELSE stored

\* upload_file, "if not part[field] and value": a stored field is written only
\* when it is empty and the row carries a value
fill_if_empty(stored, incoming) ==
    IF stored = <<>> /\ incoming # <<>> THEN incoming ELSE stored

\* upload_file, one row of the loop: the brand is resolved or created, the
\* part is matched on its main or its additional article, empty name and
\* weight are filled in, and the price is stored
upload_file_row(row, price_list_id, w) ==
    LET brand_name == PyStrip(row.brand) IN
    IF row.article = "" \/ brand_name = <<>>
    THEN {w}
    ELSE UNION {
        IF o.raised
        THEN {[w EXCEPT !.raised = TRUE]}
        ELSE LET part == {i \in 1..Len(w.parts_catalog) :
                             /\ w.parts_catalog[i].brand_id = o.brand_id
                             /\ \/ w.parts_catalog[i].main_article = row.article
                                \/ w.parts_catalog[i].additional_article = <<row.article>>}
                 Stored(part_id, P) ==
                     [w EXCEPT !.brands = o.brands,
                               !.brand_synonyms = o.brand_synonyms,
                               !.parts_catalog = P,
                               !.prices = Append(@, [price_list_id |-> price_list_id,
                                                     part_id |-> part_id,
                                                     price |-> row.price]),
                               !.resolved = Append(@, [brand |-> row.brand,
                                                       article |-> row.article,
                                                       part_id |-> part_id]),
                               !.added_count = IF part = {} THEN @ + 1 ELSE @]
                 Filled(i) ==
                     [w.parts_catalog EXCEPT
                         ![i].name_ru = fill_if_empty(@, row.name),
                         ![i].weight = fill_if_empty(@, row.weight)]
             IN  IF part # {}
                 THEN {Stored(i, Filled(i)) : i \in part}
                 ELSE {Stored(Len(w.parts_catalog) + 1,
                              Append(w.parts_catalog,
                                     NewPart(o.brand_id, row.article, <<>>,
                                             row.name, row.weight)))}
        : o \in get_or_create_brand(brand_name, w.brands, w.brand_synonyms) }

\* upload_file, the loop over the rows of the spreadsheet; an exception leaves it
RECURSIVE upload_file_rows(_, _, _)
upload_file_rows(rows, price_list_id, w) ==
    IF rows = <<>> \/ w.raised THEN {w}
    ELSE UNION {upload_file_rows(Tail(rows), price_list_id, w1) :
                    w1 \in upload_file_row(Head(rows), price_list_id, w)}

\* api_catalog_upload, one row of the loop: an existing part (matched on its
\* main article only) takes every field the row carries, a missing one is
\* inserted.  name_ru stands for name_ru, name_en, volume_coefficient and
\* notes, which the loop treats alike.
api_catalog_upload_row(row, w) ==
    UNION {
        IF o.raised
        THEN {[w EXCEPT !.raised = TRUE]}
        ELSE IF o.brand_id = 0
        THEN {w}
        ELSE LET existing == {i \in 1..Len(w.parts_catalog) :
                                 /\ w.parts_catalog[i].brand_id = o.brand_id
                                 /\ w.parts_catalog[i].main_article = row.main_article}
                 Done(part_id, P) ==
                     [w EXCEPT !.brands = o.brands,
                               !.brand_synonyms = o.brand_synonyms,
                               !.parts_catalog = P,
                               !.resolved = Append(@, [brand |-> row.brand,
                                                       article |-> row.main_article,
                                                       part_id |-> part_id]),
                               !.added_count = IF existing = {} THEN @ + 1 ELSE @]
                 Updated(i) ==
                     [w.parts_catalog EXCEPT
                         ![i].additional_article =
                             IF row.additional_article # <<>>
                             THEN (IF row.additional_article = <<"">> THEN <<>>
                                   ELSE row.additional_article)
                             ELSE @,
                         ![i].name_ru = IF row.name # <<>> THEN row.name ELSE @,
                         ![i].weight = IF row.weight # <<>> THEN row.weight ELSE @]
             IN  IF existing # {}
                 THEN {Done(i, Updated(i)) : i \in existing}
                 ELSE {Done(Len(w.parts_catalog) + 1,
                            Append(w.parts_catalog,
                                   NewPart(o.brand_id, row.main_article,
                                           IF row.additional_article = <<"">> THEN <<>>
                                           ELSE row.additional_article,
                                           row.name, row.weight)))}
        : o \in get_or_create_brand(PyStrip(row.brand), w.brands, w.brand_synonyms) }

RECURSIVE api_catalog_upload_rows(_, _)
api_catalog_upload_rows(rows, w) ==
    IF rows = <<>> \/ w.raised THEN {w}
    ELSE UNION {api_catalog_upload_rows(Tail(rows), w1) :
                    w1 \in api_catalog_upload_row(Head(rows), w)}

\* api_expected_prices_upload and api_sales_statistics_upload, the loop: each
\* row resolves its part with get_or_create_part_in_catalog and stores a row
\* that references it
RECURSIVE part_reference_rows(_, _)
part_reference_rows(rows, w) ==
    IF rows = <<>> \/ w.raised THEN {w}
    ELSE LET row == Head(rows)
             brand_name == PyStrip(row.brand)
         IN  IF row.article = "" \/ brand_name = <<>>
             THEN part_reference_rows(Tail(rows), w)
             ELSE UNION {
                 part_reference_rows(Tail(rows),
                     IF r.part_id = 0 THEN r.w
                     ELSE [r.w EXCEPT !.expected = @ \cup {r.part_id},
                                      !.resolved = Append(@, [brand |-> row.brand,
                                                              article |-> row.article,
                                                              part_id |-> r.part_id]),
                                      !.added_count =
                                          IF r.part_id > Len(w.parts_catalog)
                                          THEN @ + 1 ELSE @])
                 : r \in get_or_create_part_in_catalog(brand_name, row.article, w) }

\* the first part id each <<brand, article>> pair resolved to, after the
\* resolutions of one more handler
RECURSIVE RecordFirst(_, _)
RecordFirst(fp, resolved) ==
    IF resolved = <<>> THEN fp
    ELSE LET r == Head(resolved)
             k == <<r.brand, r.article>>
         IN  RecordFirst(IF fp[k] = 0 THEN [fp EXCEPT ![k] = r.part_id] ELSE fp,
                         Tail(resolved))

----------------------------------------------------------------------------
(* Ingestion handlers *)

\* the response of an ingestion handler
Ingested(op, rows, w) ==
    [op |-> op, rows |-> rows, raised |-> w.raised,
     resolved |-> IF w.raised THEN <<>> ELSE w.resolved,
     added_count |-> IF w.raised THEN 0 ELSE w.added_count,
     reingested |-> op = "upload_file" /\ rows \in uploaded]

\* what every ingestion handler leaves in the brand and part tables: the
\* commit of its work, or nothing when an exception ended it before the commit
Commit(w) ==
    /\ Len(w.brands) <= MaxBrands
    /\ Len(w.parts_catalog) <= MaxParts
    /\ brands' = IF w.raised THEN brands ELSE w.brands
    /\ brand_synonyms' = IF w.raised THEN brand_synonyms ELSE w.brand_synonyms
    /\ parts_catalog' = IF w.raised THEN parts_catalog ELSE w.parts_catalog
    /\ first_part' = IF w.raised THEN first_part ELSE RecordFirst(first_part, w.resolved)

\* POST /upload: a supplier's price list, while the table holds fewer than
\* limit lists
UploadFileWithin(limit, supplier_id, upload_date, rows) ==
    /\ Len(price_lists) < limit
    /\ \E w \in upload_file_rows(rows, Len(price_lists) + 1,
                                 Work(brands, brand_synonyms, parts_catalog, prices)) :
        /\ Commit(w)
        /\ price_lists' =
              IF w.raised THEN price_lists
              ELSE Append(price_lists, [supplier_id |-> supplier_id,
                                        upload_date |-> upload_date,
                                        is_active |-> TRUE])
        /\ prices' = IF w.raised THEN prices ELSE w.prices
        /\ response' = Ingested("upload_file", rows, w)
        /\ uploaded' = IF w.raised THEN uploaded ELSE uploaded \cup {rows}
    /\ UNCHANGED <<currency_rates, delivery_costs, analysis_cache,
                   expected_sale_prices, sales_statistics, first_brand,
                   sessionVars>>

UploadFile(supplier_id, upload_date, rows) ==
    UploadFileWithin(MaxPriceLists, supplier_id, upload_date, rows)

\* POST /api/catalog/upload
ApiCatalogUpload(rows) ==
    /\ \E w \in api_catalog_upload_rows(rows,
                    Work(brands, brand_synonyms, parts_catalog, prices)) :
        /\ Commit(w)
        /\ response' = Ingested("api_catalog_upload", rows, w)
    /\ UNCHANGED <<priceVars, expected_sale_prices, sales_statistics,
                   first_brand, uploaded, sessionVars>>

\* POST /api/expected_prices/upload
ApiExpectedPricesUpload(rows) ==
    /\ \E w \in part_reference_rows(rows,
                    Work(brands, brand_synonyms, parts_catalog, prices)) :
        /\ Commit(w)
        /\ expected_sale_prices' =
              IF w.raised THEN expected_sale_prices
              ELSE expected_sale_prices \cup w.expected
        /\ response' = Ingested("api_expected_prices_upload", rows, w)
    /\ UNCHANGED <<priceVars, sales_statistics, first_brand, uploaded, sessionVars>>

\* POST /api/sales_statistics/upload
ApiSalesStatisticsUpload(rows) ==
    /\ \E w \in part_reference_rows(rows,
                    Work(brands, brand_synonyms, parts_catalog, prices)) :
        /\ Commit(w)
        /\ sales_statistics' =
              IF w.raised THEN sales_statistics
              ELSE sales_statistics \cup w.expected
        /\ response' = Ingested("api_sales_statistics_upload", rows, w)
    /\ UNCHANGED <<priceVars, expected_sale_prices, first_brand, uploaded, sessionVars>>

\* PUT /api/catalog/<part_id>: every field of the row is replaced
ApiCatalogItemPut(part_id, data) ==
    LET brand == {i \in 1..Len(brands) : brands[i] = data.brand} IN
    /\ part_id \in 1..Len(parts_catalog)
    /\ IF brand = {}
       THEN /\ parts_catalog' = parts_catalog
            /\ response' = [op |-> "api_catalog_item", status |-> 400]
       ELSE \E b \in brand :
            /\ parts_catalog' =
                  [parts_catalog EXCEPT ![part_id] =
                      NewPart(b, data.main_article, data.additional_article,
                              data.name, data.weight)]
            /\ response' = [op |-> "api_catalog_item", status |-> 200]
    /\ UNCHANGED <<brands, brand_synonyms, priceVars, expected_sale_prices,
                   sales_statistics, historyVars, sessionVars>>

\* a row of parts_catalog after DELETE: its id is taken (AUTOINCREMENT) and no
\* brand or article matches it
DeletedPart == NewPart(0, "", <<>>, <<>>, <<>>)

\* DELETE /api/catalog/<part_id> without the count of the part's prices
ApiCatalogItemDeleteUnchecked(part_id) ==
    /\ part_id \in 1..Len(parts_catalog)
    /\ parts_catalog' = [parts_catalog EXCEPT ![part_id] = DeletedPart]
    /\ response' = [op |-> "api_catalog_item_delete", part_id |-> part_id,
                    status |-> 200]
    /\ UNCHANGED <<brands, brand_synonyms, priceVars, expected_sale_prices,
                   sales_statistics, historyVars, sessionVars>>

\* DELETE /api/catalog/<part_id>: refused while prices reference the part
ApiCatalogItemDelete(part_id) ==
    LET price_count == Cardinality({k \in 1..Len(prices) : prices[k].part_id = part_id}) IN
    /\ part_id \in 1..Len(parts_catalog)
    /\ IF price_count > 0
       THEN /\ parts_catalog' = parts_catalog
            /\ response' = [op |-> "api_catalog_item_delete", part_id |-> part_id,
                            status |-> 400]
       ELSE /\ parts_catalog' = [parts_catalog EXCEPT ![part_id] = DeletedPart]
            /\ response' = [op |-> "api_catalog_item_delete", part_id |-> part_id,
                            status |-> 200]
    /\ UNCHANGED <<brands, brand_synonyms, priceVars, expected_sale_prices,
                   sales_statistics, historyVars, sessionVars>>

----------------------------------------------------------------------------
(* Ingestion and catalog specifications *)

IngestBrands == {<<"b">>, <<"zh">>}

\* rows that carry a part's identity and nothing else
UploadRow ==
    [brand : IngestBrands, article : Articles, name : {<<>>},
     weight : {<<>>}, price : {1}]

CatalogRow ==
    [brand : IngestBrands, main_article : Articles,
     additional_article : {<<"">>, <<"Y">>}, name : {<<>>}, weight : {<<>>}]

ReferenceRow == [brand : IngestBrands, article : Articles]

CatalogItem ==
    [brand : {<<"b">>, <<"zh">>}, main_article : Articles,
     additional_article : {<<>>, <<"Y">>}, name : {<<"n1">>}, weight : {<<>>}]

\* the four ingestion paths
NextIngest ==
    \/ \E row \in UploadRow : UploadFile(1, 1, <<row>>)
    \/ \E row \in CatalogRow : ApiCatalogUpload(<<row>>)
    \/ \E row \in ReferenceRow : ApiExpectedPricesUpload(<<row>>)
    \/ \E row \in ReferenceRow : ApiSalesStatisticsUpload(<<row>>)

SpecIngest == Init /\ [][NextIngest]_vars

\* price lists and catalog files of one or more rows
UploadBatches ==
    UNION {[1..k -> [brand : IngestBrands, article : Articles, name : {<<>>},
                     weight : {<<>>}, price : {1}]] : k \in 1..MaxBatchRows}

CatalogBatches ==
    UNION {[1..k -> [brand : IngestBrands, main_article : Articles,
                     additional_article : {<<"">>}, name : {<<>>},
                     weight : {<<>>}]] : k \in 1..MaxBatchRows}

\* batches of several rows through the two spreadsheet handlers
NextBatch ==
    \/ \E rows \in UploadBatches : UploadFile(1, 1, rows)
    \/ \E rows \in CatalogBatches : ApiCatalogUpload(rows)

SpecBatch == Init /\ [][NextBatch]_vars

\* ingestion of one brand's parts interleaved with the editing of catalog items
NextCatalog ==
    \/ \E a \in Articles :
          UploadFile(1, 1, <<[brand |-> <<"b">>, article |-> a, name |-> <<>>,
                              weight |-> <<>>, price |-> 1]>>)
    \/ \E a \in Articles, b \in {<<"">>, <<"Y">>} :
          ApiCatalogUpload(<<[brand |-> <<"b">>, main_article |-> a,
                              additional_article |-> b, name |-> <<>>,
                              weight |-> <<>>]>>)
    \/ \E a \in Articles :
          ApiExpectedPricesUpload(<<[brand |-> <<"b">>, article |-> a]>>)
    \/ \E i \in 1..Len(parts_catalog), data \in CatalogItem : ApiCatalogItemPut(i, data)

SpecCatalog == Init /\ [][NextCatalog]_vars

\* rows of one part that carry descriptive fields
EnrichUploadRow ==
    [brand : {<<"b">>}, article : {"X"}, name : {<<>>, <<"n1">>},
     weight : {<<>>, <<1>>}, price : {1}]

EnrichCatalogRow ==
    [brand : {<<"b">>}, main_article : {"X"},
     additional_article : {<<>>, <<"Y">>}, name : {<<>>, <<"n2">>},
     weight : {<<>>, <<2>>}]

\* price-list uploads and catalog uploads meeting each other's parts
NextEnrich ==
    \/ \E row \in EnrichUploadRow : UploadFile(1, 1, <<row>>)
    \/ \E row \in EnrichCatalogRow : ApiCatalogUpload(<<row>>)

SpecEnrich == Init /\ [][NextEnrich]_vars

----------------------------------------------------------------------------
(* Concurrent find-or-create calls *)

\* Every request handler works on its own SQLite connection.  A SELECT reads
\* the committed tables; the first INSERT of a connection opens its write
\* transaction, which no other connection can do until the transaction ends;
\* the rows written become visible to the others when the handler commits.

\* the tables a caller reads: its own transaction's, else the committed ones
View(c) ==
    IF transaction # <<>> /\ transaction[1].owner = c
    THEN transaction[1]
    ELSE [owner |-> c, brands |-> brands, brand_synonyms |-> brand_synonyms,
          parts_catalog |-> parts_catalog]

\* a caller may write: no other connection holds the write transaction
MayWrite(c) == IF transaction = <<>> THEN TRUE ELSE transaction[1].owner = c

\* a handler calls get_or_create_part_in_catalog; an empty brand or article
\* is answered with None at once
BeginCall(c, brand_name, article) ==
    /\ calls[c].pc = "idle"
    /\ calls' = [calls EXCEPT ![c] =
                    [pc |-> IF brand_name = <<>> \/ article = "" THEN "done"
                            ELSE "find_brand",
                     brand_name |-> brand_name, article |-> article,
                     brand_id |-> 0, part_id |-> 0]]
    /\ UNCHANGED <<brands, brand_synonyms, catalogVars, priceVars, response,
                   historyVars, transaction>>

\* get_or_create_brand up to its INSERT: find_brand_by_name on what the
\* caller can read
FindBrand(c) ==
    /\ calls[c].pc = "find_brand"
    /\ LET v == View(c)
           normalized_name == PyStrip(PyUpper(calls[c].brand_name))
       IN  \E brand_id \in find_brand_by_name(normalized_name, v.brands, v.brand_synonyms) :
               calls' = [calls EXCEPT ![c].brand_id = brand_id,
                                      ![c].pc = IF brand_id # 0 THEN "find_part"
                                                ELSE "insert_brand"]
    /\ UNCHANGED <<brands, brand_synonyms, catalogVars, priceVars, response,
                   historyVars, transaction>>

\* get_or_create_brand from its INSERT on: the brand row and the synonym row
\* are written in the caller's transaction; a name that is already stored
\* raises IntegrityError, which ends the call and rolls its transaction back
InsertBrand(c) ==
    /\ calls[c].pc = "insert_brand"
    /\ MayWrite(c)
    /\ LET v == View(c)
           brand_name == calls[c].brand_name
           normalized_name == PyStrip(PyUpper(brand_name))
       IN  IF BrandNameTaken(PyStrip(brand_name), v.brands)
           THEN /\ calls' = [calls EXCEPT ![c].pc = "failed"]
                /\ transaction' = <<>>
           ELSE /\ Len(v.brands) < MaxBrands
                /\ calls' = [calls EXCEPT ![c].brand_id = Len(v.brands) + 1,
                                           ![c].pc = "find_part"]
                /\ transaction' =
                      <<[v EXCEPT
                           !.brands = Append(@, PyStrip(brand_name)),
                           !.brand_synonyms =
                               IF normalized_name # PyUpper(brand_name)
                               THEN @ \cup {[brand_id |-> Len(v.brands) + 1,
                                             synonym_name |-> normalized_name]}
                               ELSE @]>>
    /\ UNCHANGED <<brands, brand_synonyms, catalogVars, priceVars, response,
                   historyVars>>

\* get_or_create_part_in_catalog: the SELECT of the part
FindPart(c) ==
    /\ calls[c].pc = "find_part"
    /\ LET v == View(c)
           part == {i \in 1..Len(v.parts_catalog) :
                       /\ v.parts_catalog[i].brand_id = calls[c].brand_id
                       /\ v.parts_catalog[i].main_article = calls[c].article}
       IN  IF part # {}
           THEN \E i \in part :
                    calls' = [calls EXCEPT ![c].part_id = i, ![c].pc = "commit"]
           ELSE calls' = [calls EXCEPT ![c].pc = "insert_part"]
    /\ UNCHANGED <<brands, brand_synonyms, catalogVars, priceVars, response,
                   historyVars, transaction>>

\* get_or_create_part_in_catalog: the INSERT of the part, in the caller's
\* transaction
InsertPart(c) ==
    /\ calls[c].pc = "insert_part"
    /\ MayWrite(c)
    /\ LET v == View(c) IN
          /\ Len(v.parts_catalog) < MaxParts
          /\ calls' = [calls EXCEPT ![c].part_id = Len(v.parts_catalog) + 1,
                                     ![c].pc = "commit"]
          /\ transaction' =
                <<[v EXCEPT !.parts_catalog =
                      Append(@, NewPart(calls[c].brand_id, calls[c].article,
                                        <<>>, <<>>, <<>>))]>>
    /\ UNCHANGED <<brands, brand_synonyms, catalogVars, priceVars, response,
                   historyVars>>

\* the handler's conn.commit(): the rows of the caller's transaction reach
\* the tables
CommitCall(c) ==
    /\ calls[c].pc = "commit"
    /\ calls' = [calls EXCEPT ![c].pc = "done"]
    /\ IF transaction # <<>> /\ transaction[1].owner = c
       THEN /\ brands' = transaction[1].brands
            /\ brand_synonyms' = transaction[1].brand_synonyms
            /\ parts_catalog' = transaction[1].parts_catalog
            /\ transaction' = <<>>
       ELSE UNCHANGED <<brands, brand_synonyms, parts_catalog, transaction>>
    /\ UNCHANGED <<expected_sale_prices, sales_statistics, priceVars, response,
                   historyVars>>

\* two handlers resolving parts of one brand at the same time, on tables in
\* which the brand may already be stored
NextRace ==
    \/ /\ \A c \in Callers : calls[c].pc = "idle"
       /\ ResolveOrCreateBrand(<<"b">>)
    \/ \E c \in Callers, n \in {<<"b">>, <<" ", "b">>}, a \in Articles :
          BeginCall(c, n, a)
    \/ \E c \in Callers : FindBrand(c)
    \/ \E c \in Callers : InsertBrand(c)
    \/ \E c \in Callers : FindPart(c)
    \/ \E c \in Callers : InsertPart(c)
    \/ \E c \in Callers : CommitCall(c)

SpecRace == Init /\ [][NextRace]_vars

----------------------------------------------------------------------------
(* Suppliers, rates and delivery rules *)

\* the suppliers table, as entered through /suppliers: id = position.  The
\* region names stand for the code's region names of China, UAE, Japan and
\* Germany.
Suppliers ==
    << [name |-> "A", region |-> "China", currency |-> "USD"],
       [name |-> "B", region |-> "China", currency |-> "CNY"],
       [name |-> "C", region |-> "Japan", currency |-> "JPY"],
       [name |-> "D", region |-> "China", currency |-> "USD"],
       [name |-> "E", region |-> "Germany", currency |-> "USD"] >>

\* the regions calculate_region_prices iterates over, in its order
OrderRegions == <<"China", "UAE", "Japan">>

\* get_delivery_costs: the rules of the three order regions, by region name
get_delivery_costs ==
    [r \in {OrderRegions[i] : i \in 1..Len(OrderRegions)} \cap DOMAIN delivery_costs |->
        delivery_costs[r]]

\* PUT /api/delivery_costs: the rule of one region is edited; a missing or
\* zero field is answered with 400
ApiDeliveryCostsPut(region, cost_per_kg, min_cost) ==
    /\ region \in DOMAIN delivery_costs
    /\ IF cost_per_kg = 0 \/ min_cost = 0
       THEN /\ delivery_costs' = delivery_costs
            /\ response' = [op |-> "api_delivery_costs", status |-> 400]
       ELSE /\ delivery_costs' =
                  [delivery_costs EXCEPT ![region] =
                      [cost_per_kg |-> cost_per_kg, min_cost |-> min_cost]]
            /\ response' = [op |-> "api_delivery_costs", status |-> 200]
    /\ UNCHANGED <<brands, brand_synonyms, catalogVars, price_lists, prices,
                   currency_rates, analysis_cache, historyVars, sessionVars>>

\* data.get('coefficient', 0.835), in thousandths
DefaultCoefficient == 835

Max(a, b) == IF a >= b THEN a ELSE b

\* a plausible slip: the minimum left out
calculate_delivery_cost_by_weight(weight, delivery_data) ==
    IF delivery_data = <<>> THEN 0
    ELSE weight * delivery_data[1].cost_per_kg

\* calculate_delivery_cost; delivery_data is <<>> when the region has no rule
calculate_delivery_cost(weight, delivery_data) ==
    IF delivery_data = <<>> THEN 0
    ELSE Max(delivery_data[1].min_cost, weight * delivery_data[1].cost_per_kg)

\* dict(...): the rows of a query read in order, a later row of a key replacing
\* an earlier one
RECURSIVE DictOfRows(_, _)
DictOfRows(rows, d) ==
    IF rows = <<>> THEN d
    ELSE LET r == Head(rows) IN
         DictOfRows(Tail(rows),
                    [c \in DOMAIN d \cup {r.currency_code} |->
                        IF c = r.currency_code THEN r.rate_to_rub ELSE d[c]])

\* ORDER BY created_at DESC
RECURSIVE OrderByCreatedAtDesc(_)
OrderByCreatedAtDesc(rows) ==
    IF rows = {} THEN <<>>
    ELSE LET first == CHOOSE r \in rows : \A q \in rows : r.created_at >= q.created_at
         IN  <<first>> \o OrderByCreatedAtDesc(rows \ {first})

RowsOf(table) == {table[i] : i \in 1..Len(table)}

\* get_currency_rates: the dict built from the rows in descending created_at
get_currency_rates(rates) ==
    DictOfRows(OrderByCreatedAtDesc(RowsOf(rates)), <<>>)

\* SELECT rate_to_rub ... WHERE currency_code = ? ORDER BY created_at DESC
\* LIMIT 1, as the SQL of the analyses embeds it: <<>> is NULL
LatestRateSql(currency, rates) ==
    LET rows == {r \in RowsOf(rates) : r.currency_code = currency}
    IN  IF rows = {} THEN <<>>
        ELSE <<(CHOOSE r \in rows : \A q \in rows : r.created_at >= q.created_at).rate_to_rub>>

\* a plausible slip: the base currency converted like any other currency
convert_to_rub_at_rate(price, currency, rates_dict, delivery_cost, coefficient) ==
    LET rate == IF currency \in DOMAIN rates_dict THEN rates_dict[currency] ELSE 1
    IN  ((price * rate + delivery_cost) * 1000) \div coefficient

\* a plausible slip: the delivery cost added after the division
convert_to_rub_then_delivery(price, currency, rates_dict, delivery_cost, coefficient) ==
    LET rate == IF currency \in DOMAIN rates_dict THEN rates_dict[currency] ELSE 1
        price_rub == IF currency = "RUB" THEN price ELSE price * rate
    IN  ((price_rub * 1000) \div coefficient) + delivery_cost

\* convert_to_rub: (price * rate + delivery) / coefficient, rounded down to a
\* whole amount; the coefficient is in thousandths
convert_to_rub(price, currency, rates_dict, delivery_cost, coefficient) ==
    LET rate == IF currency \in DOMAIN rates_dict THEN rates_dict[currency] ELSE 1
        price_rub == IF currency = "RUB" THEN price ELSE price * rate
    IN  ((price_rub + delivery_cost) * 1000) \div coefficient

----------------------------------------------------------------------------
(* Price aggregator *)

\* prices JOIN price_lists JOIN suppliers JOIN regions JOIN parts_catalog JOIN
\* brands: one record per price row of tables PL, PR, P, B
Observation(i, PL, PR, P, B) ==
    LET pl == PL[PR[i].price_list_id]
        part == P[PR[i].part_id]
    IN  [id |-> i, price |-> PR[i].price, part_id |-> PR[i].part_id,
         price_list_id |-> PR[i].price_list_id, supplier_id |-> pl.supplier_id,
         upload_date |-> pl.upload_date, is_active |-> pl.is_active,
         currency |-> Suppliers[pl.supplier_id].currency,
         supplier_name |-> Suppliers[pl.supplier_id].name,
         region |-> Suppliers[pl.supplier_id].region,
         brand |-> B[part.brand_id], main_article |-> part.main_article]

Observations == {Observation(i, price_lists, prices, parts_catalog, brands) :
                    i \in 1..Len(prices)}

\* a plausible slip: the partition ordered by price instead of by date
FirstByPriceAsc(rows) ==
    {r \in rows : \A q \in rows : r.price <= q.price}

\* ROW_NUMBER() OVER (... ORDER BY upload_date DESC) = 1: the rows of one
\* partition that may be numbered first
FirstByUploadDateDesc(rows) ==
    {r \in rows : \A q \in rows : r.upload_date >= q.upload_date}

SupplierOf(r) == r.supplier_id

PartAndSupplierOf(r) == <<r.part_id, r.supplier_id>>

PartOf(r) == r.part_id

\* PARTITION BY s.id
PartitionBySupplier(rows) ==
    {{q \in rows : SupplierOf(q) = SupplierOf(r)} : r \in rows}

\* PARTITION BY pc.id, s.id
PartitionByPartAndSupplier(rows) ==
    {{q \in rows : PartAndSupplierOf(q) = PartAndSupplierOf(r)} : r \in rows}

\* PARTITION BY part_id
PartitionByPart(rows) ==
    {{q \in rows : PartOf(q) = PartOf(r)} : r \in rows}

\* one row out of each of the given sets of rows
RECURSIVE ChooseOneFromEach(_)
ChooseOneFromEach(sets) ==
    IF sets = {} THEN {{}}
    ELSE LET one == CHOOSE x \in sets : TRUE
             rest == ChooseOneFromEach(sets \ {one})
         IN  {{r} \cup others : r \in one, others \in rest}

\* the results of "rn = 1": one first row from every partition
OnePerPartition(partitions) ==
    ChooseOneFromEach({FirstByUploadDateDesc(part) : part \in partitions})

\* get_best_region_price, CTE LatestSupplierPrices with rn = 1
LatestSupplierPrices(brand_name, article, region_name) ==
    LET rows == {r \in Observations :
                    /\ r.brand = brand_name
                    /\ r.main_article = article
                    /\ r.region = region_name
                    /\ r.is_active}
    IN  OnePerPartition(PartitionBySupplier(rows))

\* ROW_NUMBER() OVER (ORDER BY price ASC, upload_date DESC) = 1
FirstByPriceThenDate(rows) ==
    {r \in rows : \A q \in rows :
        \/ r.price < q.price
        \/ r.price = q.price /\ r.upload_date >= q.upload_date}

\* get_best_region_price: the retained rows and the row it returns, <<>> for None
get_best_region_price(brand_name, article, region_name) ==
    UNION {
        IF lsp = {} THEN {[lsp |-> lsp, best |-> <<>>]}
        ELSE {[lsp |-> lsp, best |-> <<r>>] : r \in FirstByPriceThenDate(lsp)}
        : lsp \in LatestSupplierPrices(brand_name, article, region_name) }

NoRegionData ==
    [price_original |-> <<>>, currency |-> <<>>, price_rub |-> <<>>,
     supplier |-> <<>>, profit_percent |-> <<>>, is_best_price |-> FALSE,
     is_high_profit |-> FALSE, observation |-> <<>>]

\* calculate_single_region_price, given what get_best_region_price returned
calculate_single_region_price(best, region_name, weight, rates_dict, delivery_dict, coefficient) ==
    IF best = <<>> THEN NoRegionData
    ELSE LET delivery_cost ==
                 calculate_delivery_cost(weight,
                     IF region_name \in DOMAIN delivery_dict
                     THEN <<delivery_dict[region_name]>> ELSE <<>>)
         IN  [price_original |-> <<best[1].price>>,
              currency |-> <<best[1].currency>>,
              price_rub |-> <<convert_to_rub(best[1].price, best[1].currency,
                                             rates_dict, delivery_cost, coefficient)>>,
              supplier |-> <<best[1].supplier_name>>,
              profit_percent |-> <<>>, is_best_price |-> FALSE,
              is_high_profit |-> FALSE, observation |-> best]

\* min(valid_regions.keys(), key=price_rub): the first region, in the order of
\* the dict, whose price_rub is minimal
RECURSIVE FirstMinRegion(_, _, _)
FirstMinRegion(regions_data, names, best) ==
    IF names = <<>> THEN best
    ELSE LET n == Head(names) IN
         FirstMinRegion(regions_data, Tail(names),
             IF regions_data[n].price_rub = <<>> THEN best
             ELSE IF best = <<>> THEN <<n>>
             ELSE IF regions_data[n].price_rub[1] < regions_data[best[1]].price_rub[1]
                  THEN <<n>> ELSE best)

\* find_best_region with profit >= 15 in place of profit > 15
find_best_region_from_15(regions_data, sale_price) ==
    LET best_region_name == FirstMinRegion(regions_data, OrderRegions, <<>>) IN
    IF sale_price = <<>> \/ sale_price = <<0>> \/ best_region_name = <<>>
    THEN regions_data
    ELSE [n \in DOMAIN regions_data |->
            LET data == regions_data[n] IN
            IF data.price_rub = <<>> \/ data.price_rub = <<0>> THEN data
            ELSE [data EXCEPT
                    !.profit_percent =
                        <<((sale_price[1] * 1000) \div data.price_rub[1]) - 1000>>,
                    !.is_best_price = (n = best_region_name[1]),
                    !.is_high_profit =
                        (sale_price[1] * 100 >= 115 * data.price_rub[1])]]

\* find_best_region; profit_percent is in tenths of a percent
find_best_region(regions_data, sale_price) ==
    LET best_region_name == FirstMinRegion(regions_data, OrderRegions, <<>>) IN
    IF sale_price = <<>> \/ sale_price = <<0>> \/ best_region_name = <<>>
    THEN regions_data
    ELSE [n \in DOMAIN regions_data |->
            LET data == regions_data[n] IN
            IF data.price_rub = <<>> \/ data.price_rub = <<0>> THEN data
            ELSE [data EXCEPT
                    !.profit_percent =
                        <<((sale_price[1] * 1000) \div data.price_rub[1]) - 1000>>,
                    !.is_best_price = (n = best_region_name[1]),
                    !.is_high_profit =
                        (sale_price[1] * 100 > 115 * data.price_rub[1])]]

\* calculate_supplier_price with ORDER BY p.price ASC in place of
\* ORDER BY pl.upload_date DESC
calculate_supplier_price_cheapest(item, supplier_id, rates_dict, delivery_dict, coefficient) ==
    LET supplier_info == Suppliers[supplier_id]
        rows == {r \in Observations :
                    /\ r.brand = item.brand
                    /\ r.main_article = item.article
                    /\ r.supplier_id = supplier_id
                    /\ r.is_active}
        Priced(price_data) ==
            LET delivery_cost ==
                    calculate_delivery_cost(item.catalog_weight,
                        IF supplier_info.region \in DOMAIN delivery_dict
                        THEN <<delivery_dict[supplier_info.region]>> ELSE <<>>)
                price_rub == convert_to_rub(price_data.price, supplier_info.currency,
                                            rates_dict, delivery_cost, coefficient)
            IN  [price_original |-> <<price_data.price>>,
                 currency |-> supplier_info.currency,
                 price_rub |-> <<price_rub>>,
                 supplier |-> supplier_info.name,
                 profit_percent |->
                     IF item.sale_price \notin {<<>>, <<0>>} /\ price_rub # 0
                        /\ item.sale_price[1] # price_rub
                     THEN <<((item.sale_price[1] * 1000) \div price_rub) - 1000>>
                     ELSE <<>>,
                 has_data |-> TRUE, observation |-> <<price_data>>]
    IN  IF rows = {}
        THEN {[price_original |-> <<>>, currency |-> supplier_info.currency,
               price_rub |-> <<>>, supplier |-> supplier_info.name,
               profit_percent |-> <<>>, has_data |-> FALSE, observation |-> <<>>]}
        ELSE {Priced(r) : r \in FirstByPriceAsc(rows)}

\* calculate_supplier_price
calculate_supplier_price(item, supplier_id, rates_dict, delivery_dict, coefficient) ==
    LET supplier_info == Suppliers[supplier_id]
        rows == {r \in Observations :
                    /\ r.brand = item.brand
                    /\ r.main_article = item.article
                    /\ r.supplier_id = supplier_id
                    /\ r.is_active}
        Priced(price_data) ==
            LET delivery_cost ==
                    calculate_delivery_cost(item.catalog_weight,
                        IF supplier_info.region \in DOMAIN delivery_dict
                        THEN <<delivery_dict[supplier_info.region]>> ELSE <<>>)
                price_rub == convert_to_rub(price_data.price, supplier_info.currency,
                                            rates_dict, delivery_cost, coefficient)
            IN  [price_original |-> <<price_data.price>>,
                 currency |-> supplier_info.currency,
                 price_rub |-> <<price_rub>>,
                 supplier |-> supplier_info.name,
                 profit_percent |->
                     IF item.sale_price \notin {<<>>, <<0>>} /\ price_rub # 0
                        /\ item.sale_price[1] # price_rub
                     THEN <<((item.sale_price[1] * 1000) \div price_rub) - 1000>>
                     ELSE <<>>,
                 has_data |-> TRUE, observation |-> <<price_data>>]
    IN  IF rows = {}
        THEN {[price_original |-> <<>>, currency |-> supplier_info.currency,
               price_rub |-> <<>>, supplier |-> supplier_info.name,
               profit_percent |-> <<>>, has_data |-> FALSE, observation |-> <<>>]}
        ELSE {Priced(r) : r \in FirstByUploadDateDesc(rows)}

\* the price_rub column of the analyses: NULL (<<>>) when the rate is missing
PriceRubSql(r) ==
    IF r.currency = "RUB" THEN <<r.price>>
    ELSE LET rate == LatestRateSql(r.currency, currency_rates)
         IN  IF rate = <<>> THEN <<>> ELSE <<r.price * rate[1]>>

\* ORDER BY price_rub ASC, upload_date DESC, supplier_name: r is not after q.
\* NULL sorts first; the suppliers' names are in the order of their ids.
AnalysisOrder(r, q) ==
    LET pr == PriceRubSql(r)
        pq == PriceRubSql(q)
    IN  IF pr # pq
        THEN pr = <<>> \/ (pq # <<>> /\ pr[1] < pq[1])
        ELSE IF r.upload_date # q.upload_date
        THEN r.upload_date > q.upload_date
        ELSE r.supplier_id <= q.supplier_id

\* check_currency_rates
check_currency_rates ==
    {Suppliers[i].currency : i \in 1..Len(Suppliers)}
    \ ({"RUB"} \cup {r.currency_code : r \in RowsOf(currency_rates)})

\* analysis, the query: the rows retained per part and supplier (lsp) and the
\* best row of every part
analysis ==
    LET active == {r \in Observations : r.is_active}
    IN  UNION {
            {[lsp |-> lsp, parts |-> parts] :
                parts \in ChooseOneFromEach(
                    {{r \in part : \A q \in part : AnalysisOrder(r, q)} :
                        part \in PartitionByPart(lsp)})}
            : lsp \in OnePerPartition(PartitionByPartAndSupplier(active)) }

\* api_supplier_comparison, the query: supplier 1's latest row of every part,
\* LEFT JOINed with supplier 2's latest row of the same part (<<>> when none)
api_supplier_comparison(supplier1, supplier2, show_all) ==
    LET second == IF supplier2 = <<>> THEN supplier1 ELSE supplier2[1]
        Latest(s) ==
            OnePerPartition(PartitionByPart(
                {r \in Observations : r.is_active /\ r.supplier_id = s}))
        Joined(l1, l2) ==
            UNION {IF \E q \in l2 : q.part_id = r.part_id
                   THEN {[s1 |-> r, s2 |-> <<q>>] : q \in {x \in l2 : x.part_id = r.part_id}}
                   ELSE {[s1 |-> r, s2 |-> <<>>]} : r \in l1}
    IN  {IF ~show_all /\ supplier2 # <<>>
         THEN {j \in Joined(l1, l2) : j.s2 # <<>>}
         ELSE Joined(l1, l2) : l1 \in Latest(supplier1), l2 \in Latest(second)}

\* the freshness window of RegionalMarketPrices, DATE('now', '-1300 days'), in days
FreshnessDays == 1300

\* price_list_analysis, CTE CurrentPrices: the price rows of the analysed list
CurrentPrices(price_list_id) ==
    {r \in Observations : r.price_list_id = price_list_id}

\* a plausible slip: the condition on is_active left out of PreviousPrices
PreviousPricesOfAnyList(price_list_id) ==
    LET rows == {r \in Observations :
                    /\ \E cp \in CurrentPrices(price_list_id) :
                          r.supplier_id = cp.supplier_id
                    /\ r.upload_date < price_lists[price_list_id].upload_date}
    IN  OnePerPartition(PartitionByPart(rows))

\* price_list_analysis, CTE PreviousPrices with rn = 1: for every part, one row
\* of the latest earlier active list of the same supplier
PreviousPrices(price_list_id) ==
    LET rows == {r \in Observations :
                    /\ \E cp \in CurrentPrices(price_list_id) :
                          r.supplier_id = cp.supplier_id
                    /\ r.upload_date < price_lists[price_list_id].upload_date
                    /\ r.is_active}
    IN  OnePerPartition(PartitionByPart(rows))

\* a plausible slip: the analysed list's own supplier left in the market
RegionalMarketPricesOfAllSuppliers(price_list_id, today) ==
    LET rows == {r \in Observations :
                    /\ r.is_active
                    /\ r.upload_date >= today - FreshnessDays
                    /\ \E cp \in CurrentPrices(price_list_id) : r.region = cp.region}
    IN  OnePerPartition(PartitionByPartAndSupplier(rows))

\* a plausible slip: the freshness condition left out of the WHERE clause
RegionalMarketPricesOfAnyAge(price_list_id, today) ==
    LET rows == {r \in Observations :
                    /\ r.is_active
                    /\ \E cp \in CurrentPrices(price_list_id) :
                          /\ r.region = cp.region
                          /\ r.supplier_id # cp.supplier_id}
    IN  OnePerPartition(PartitionByPartAndSupplier(rows))

\* price_list_analysis, CTE RegionalMarketPrices with rn_supplier = 1: for
\* every part and every other supplier of the region, one row of its latest
\* active list that is not older than the freshness window
RegionalMarketPrices(price_list_id, today) ==
    LET rows == {r \in Observations :
                    /\ r.is_active
                    /\ r.upload_date >= today - FreshnessDays
                    /\ \E cp \in CurrentPrices(price_list_id) :
                          /\ r.region = cp.region
                          /\ r.supplier_id # cp.supplier_id}
    IN  OnePerPartition(PartitionByPartAndSupplier(rows))

\* price_list_analysis, CTEs BestRegionalPrices and RegionalPriceDetails: the
\* rows of rmp whose market_price_rub is the MIN of their part; NULL is no MIN
RegionalPriceDetails(rmp) ==
    {r \in rmp :
        /\ PriceRubSql(r) # <<>>
        /\ \A q \in rmp :
              (q.part_id = r.part_id /\ PriceRubSql(q) # <<>>)
                  => PriceRubSql(r)[1] <= PriceRubSql(q)[1]}

\* ROUND(a / b * 100, 2) for b > 0, in hundredths of a percent
RoundPercent(a, b) ==
    IF a >= 0 THEN (2 * a * 10000 + b) \div (2 * b)
    ELSE 0 - ((2 * (0 - a) * 10000 + b) \div (2 * b))

\* price_list_analysis, the final SELECT: one row for every row of
\* CurrentPrices, LEFT JOINed previous row and LEFT JOINed regional best row
AnalysisRows(cps, pp, rpd) ==
    LET Row(cp, prev, best) ==
            [current |-> cp, previous |-> prev, best_regional |-> best,
             change_vs_previous_percent |->
                 IF prev # <<>> /\ prev[1].price > 0
                 THEN <<RoundPercent(cp.price - prev[1].price, prev[1].price)>>
                 ELSE <<>>,
             change_vs_regional_percent |->
                 IF best # <<>> /\ PriceRubSql(best[1])[1] > 0
                 THEN IF PriceRubSql(cp) = <<>> THEN <<>>
                      ELSE <<RoundPercent(PriceRubSql(cp)[1] - PriceRubSql(best[1])[1],
                                          PriceRubSql(best[1])[1])>>
                 ELSE <<>>]
        Prev(cp) == LET m == {r \in pp : r.part_id = cp.part_id}
                    IN  IF m = {} THEN {<<>>} ELSE {<<r>> : r \in m}
        Best(cp) == LET m == {r \in rpd : r.part_id = cp.part_id}
                    IN  IF m = {} THEN {<<>>} ELSE {<<r>> : r \in m}
    IN  UNION {{Row(cp, prev, best) : prev \in Prev(cp), best \in Best(cp)} : cp \in cps}

\* price_list_analysis: the query's possible results, each with the rows its
\* window functions numbered first
price_list_analysis(price_list_id, today) ==
    {[rmp |-> rmp, pp |-> pp,
      analysis_data |-> AnalysisRows(CurrentPrices(price_list_id), pp,
                                     RegionalPriceDetails(rmp))] :
        pp \in PreviousPrices(price_list_id),
        rmp \in RegionalMarketPrices(price_list_id, today)}

----------------------------------------------------------------------------
(* Price handlers *)

\* POST /api/toggle_price_list/<id>
TogglePriceList(price_list_id) ==
    /\ price_list_id \in 1..Len(price_lists)
    /\ price_lists' = [price_lists EXCEPT ![price_list_id].is_active = ~@]
    /\ response' = [op |-> "toggle_price_list",
                    new_state |-> ~price_lists[price_list_id].is_active]
    /\ UNCHANGED <<brands, brand_synonyms, catalogVars, prices, currency_rates,
                   delivery_costs, analysis_cache, historyVars, sessionVars>>

\* INSERT INTO currency_rates: the table (schema.sql) keeps several rates of
\* one currency, each recorded after every earlier row
insert_currency_rate(rates, currency_code, rate_to_rub) ==
    Append(rates, [currency_code |-> currency_code,
                   rate_to_rub |-> rate_to_rub,
                   created_at |-> Len(rates) + 1])

\* POST /api/currency_rates
ApiCurrencyRatesPost(currency_code, rate_to_rub) ==
    /\ Len(currency_rates) < MaxRates
    /\ currency_rates' = insert_currency_rate(currency_rates, currency_code, rate_to_rub)
    /\ response' = Ack("api_currency_rates")
    /\ UNCHANGED <<brands, brand_synonyms, catalogVars, price_lists, prices,
                   delivery_costs, analysis_cache, historyVars, sessionVars>>

\* PUT /api/currency_rates: every row of the currency takes the new rate
ApiCurrencyRatesPut(currency_code, rate_to_rub) ==
    /\ currency_rates' =
          [i \in 1..Len(currency_rates) |->
              IF currency_rates[i].currency_code = currency_code
              THEN [currency_rates[i] EXCEPT !.rate_to_rub = rate_to_rub]
              ELSE currency_rates[i]]
    /\ response' = Ack("api_currency_rates_put")
    /\ UNCHANGED <<brands, brand_synonyms, catalogVars, price_lists, prices,
                   delivery_costs, analysis_cache, historyVars, sessionVars>>

\* calculate_region_prices: every order region priced, then find_best_region;
\* lsp keeps, per region, the rows get_best_region_price retained
calculate_region_prices(item, rates_dict, delivery_dict, coefficient) ==
    LET names == {OrderRegions[i] : i \in 1..Len(OrderRegions)}
        choices == [names -> UNION {get_best_region_price(item.brand, item.article, n)
                                       : n \in names}]
    IN  {[lsp |-> [n \in names |-> c[n].lsp],
          regions |-> find_best_region(
              [n \in names |->
                  calculate_single_region_price(c[n].best, n, item.catalog_weight,
                                                rates_dict, delivery_dict, coefficient)],
              item.sale_price)]
         : c \in {f \in choices : \A n \in names :
                     f[n] \in get_best_region_price(item.brand, item.article, n)}}

\* a plausible slip: the loop ends at the first line that no region prices
RECURSIVE api_order_calculate_priced_items(_, _, _, _)
api_order_calculate_priced_items(order_items, rates_dict, delivery_dict, coefficient) ==
    IF order_items = <<>> THEN {<<>>}
    ELSE UNION {
            IF \A n \in DOMAIN priced.regions : priced.regions[n].price_rub = <<>>
            THEN {<<>>}
            ELSE {<<[item |-> Head(order_items), regions |-> priced.regions,
                     lsp |-> priced.lsp]>> \o rest :
                     rest \in api_order_calculate_priced_items(
                                  Tail(order_items), rates_dict, delivery_dict,
                                  coefficient)}
            : priced \in calculate_region_prices(Head(order_items), rates_dict,
                                                 delivery_dict, coefficient)}

\* api_order_calculate, the loop over the order lines: every line gets its
\* regions, in the order of the request
RECURSIVE api_order_calculate_items(_, _, _, _)
api_order_calculate_items(order_items, rates_dict, delivery_dict, coefficient) ==
    IF order_items = <<>> THEN {<<>>}
    ELSE {<<[item |-> Head(order_items), regions |-> priced.regions,
             lsp |-> priced.lsp]>> \o rest :
             priced \in calculate_region_prices(Head(order_items), rates_dict,
                                                delivery_dict, coefficient),
             rest \in api_order_calculate_items(Tail(order_items), rates_dict,
                                                delivery_dict, coefficient)}

\* POST /api/order/calculate that also stores the lines' catalog weights, as
\* api_order_save does
ApiOrderCalculateSavingWeight(order_items, coefficient) ==
    /\ \E items \in api_order_calculate_items(order_items,
                                              get_currency_rates(currency_rates),
                                              get_delivery_costs, coefficient) :
          response' = [op |-> "api_order_calculate", request |-> order_items,
                       items |-> items,
                       currency_rates |-> get_currency_rates(currency_rates),
                       coefficient |-> coefficient]
    /\ parts_catalog' =
          [i \in 1..Len(parts_catalog) |->
              IF \E k \in 1..Len(order_items) :
                     /\ brands[parts_catalog[i].brand_id] = order_items[k].brand
                     /\ parts_catalog[i].main_article = order_items[k].article
              THEN [parts_catalog[i] EXCEPT !.weight =
                       <<order_items[CHOOSE k \in 1..Len(order_items) :
                             /\ brands[parts_catalog[i].brand_id] = order_items[k].brand
                             /\ parts_catalog[i].main_article = order_items[k].article
                         ].catalog_weight>>]
              ELSE parts_catalog[i]]
    /\ UNCHANGED <<brands, brand_synonyms, expected_sale_prices, sales_statistics,
                   priceVars, historyVars, sessionVars>>

\* POST /api/order/calculate
ApiOrderCalculate(order_items, coefficient) ==
    /\ \E items \in api_order_calculate_items(order_items,
                                              get_currency_rates(currency_rates),
                                              get_delivery_costs, coefficient) :
          response' = [op |-> "api_order_calculate", request |-> order_items,
                       items |-> items,
                       currency_rates |-> get_currency_rates(currency_rates),
                       coefficient |-> coefficient]
    /\ UNCHANGED <<brands, brand_synonyms, catalogVars, priceVars, historyVars,
                   sessionVars>>

\* api_order_calculate_supplier, the loop over the order lines
RECURSIVE api_order_calculate_supplier_items(_, _, _, _, _)
api_order_calculate_supplier_items(order_items, supplier_id, rates_dict, delivery_dict, coefficient) ==
    IF order_items = <<>> THEN {<<>>}
    ELSE {<<[item |-> Head(order_items), specific_supplier |-> data]>> \o rest :
             data \in calculate_supplier_price(Head(order_items), supplier_id,
                                               rates_dict, delivery_dict, coefficient),
             rest \in api_order_calculate_supplier_items(
                          Tail(order_items), supplier_id, rates_dict,
                          delivery_dict, coefficient)}

\* POST /api/order/calculate_supplier
ApiOrderCalculateSupplier(order_items, supplier_id, coefficient) ==
    /\ supplier_id \in 1..Len(Suppliers)
    /\ \E items \in api_order_calculate_supplier_items(
                        order_items, supplier_id, get_currency_rates(currency_rates),
                        get_delivery_costs, coefficient) :
          response' = [op |-> "api_order_calculate_supplier",
                       request |-> order_items, items |-> items,
                       supplier_id |-> supplier_id,
                       currency_rates |-> get_currency_rates(currency_rates),
                       coefficient |-> coefficient]
    /\ UNCHANGED <<brands, brand_synonyms, catalogVars, priceVars, historyVars,
                   sessionVars>>

\* GET /analysis behind @cache.cached(timeout=300): the cached page while
\* there is one, else the page computed from the tables, which is then cached
Analysis ==
    /\ IF analysis_cache # <<>>
       THEN /\ response' = [analysis_cache[1] EXCEPT !.cached = TRUE]
            /\ analysis_cache' = analysis_cache
       ELSE \E page \in analysis :
            LET view == [op |-> "analysis", parts |-> page.parts, lsp |-> page.lsp,
                         missing_rates |-> check_currency_rates, cached |-> FALSE]
            IN  /\ response' = view
                /\ analysis_cache' = <<view>>
    /\ UNCHANGED <<brands, brand_synonyms, catalogVars, price_lists, prices,
                   currency_rates, delivery_costs, historyVars, sessionVars>>

\* the cache entry of /analysis reaches its timeout
CacheExpire ==
    /\ analysis_cache # <<>>
    /\ analysis_cache' = <<>>
    /\ UNCHANGED <<brands, brand_synonyms, catalogVars, price_lists, prices,
                   currency_rates, delivery_costs, response, historyVars,
                   sessionVars>>

\* GET /api/supplier_comparison
ApiSupplierComparison(supplier1, supplier2, show_all) ==
    /\ \E rows \in api_supplier_comparison(supplier1, supplier2, show_all) :
          response' = [op |-> "api_supplier_comparison", rows |-> rows]
    /\ UNCHANGED <<brands, brand_synonyms, catalogVars, priceVars, historyVars,
                   sessionVars>>

\* GET /price_lists/<id>/analysis on the day today; an unknown id is redirected
PriceListAnalysis(price_list_id, today) ==
    /\ IF price_list_id \in 1..Len(price_lists)
       THEN \E result \in price_list_analysis(price_list_id, today) :
                response' = [op |-> "price_list_analysis",
                             price_list_id |-> price_list_id, today |-> today,
                             found |-> TRUE, rmp |-> result.rmp, pp |-> result.pp,
                             analysis_data |-> result.analysis_data]
       ELSE response' = [op |-> "price_list_analysis",
                         price_list_id |-> price_list_id, today |-> today,
                         found |-> FALSE, rmp |-> {}, pp |-> {},
                         analysis_data |-> {}]
    /\ UNCHANGED <<brands, brand_synonyms, catalogVars, priceVars, historyVars,
                   sessionVars>>

\* one call of calculate_delivery_cost
CalculateDeliveryCost(weight, delivery_data) ==
    /\ response' = [op |-> "calculate_delivery_cost", weight |-> weight,
                    delivery_data |-> delivery_data,
                    result |-> calculate_delivery_cost(weight, delivery_data)]
    /\ UNCHANGED <<brands, brand_synonyms, catalogVars, priceVars, historyVars,
                   sessionVars>>

\* one call of convert_to_rub with the rates get_currency_rates reads
ConvertToRub(price, currency, delivery_cost, coefficient) ==
    /\ response' = [op |-> "convert_to_rub", price |-> price, currency |-> currency,
                    delivery_cost |-> delivery_cost, coefficient |-> coefficient,
                    currency_rates |-> get_currency_rates(currency_rates),
                    result |-> convert_to_rub(price, currency,
                                              get_currency_rates(currency_rates),
                                              delivery_cost, coefficient)]
    /\ UNCHANGED <<brands, brand_synonyms, catalogVars, priceVars, historyVars,
                   sessionVars>>

----------------------------------------------------------------------------
(* Price specifications *)

\* order lines for the part (b, X)
OrderItem ==
    [brand : {<<"b">>}, article : {"X"}, catalog_weight : {0},
     sale_price : {<<>>, <<2000>>}]

PriceRow(price) ==
    [brand |-> <<"b">>, article |-> "X", name |-> <<>>, weight |-> <<>>,
     price |-> price]

\* two suppliers of one region, quoting in different currencies, upload and
\* toggle price lists of one part; orders and the analysis read them
NextAggregate ==
    \/ \E s \in {1, 2}, d \in {1, 2} :
          \E price \in (IF s = 1 THEN {1, 2} ELSE {2}) :
              UploadFile(s, d, <<PriceRow(price)>>)
    \/ \E i \in 1..Len(price_lists) : TogglePriceList(i)
    \/ \E item \in {i \in OrderItem : i.sale_price # <<>>} :
          ApiOrderCalculate(<<item>>, DefaultCoefficient)
    \/ Analysis
    \/ CacheExpire

SpecAggregate == Init /\ [][NextAggregate]_vars

\* suppliers with and without a recorded rate, rates recorded and edited,
\* and every aggregation that reads them
NextPrice ==
    \/ \E s \in {1, 3} : UploadFile(s, 1, <<PriceRow(1)>>)
    \/ \E i \in 1..Len(price_lists) : TogglePriceList(i)
    \/ \E c \in {"USD", "JPY"} : ApiCurrencyRatesPost(c, 2)
    \/ \E c \in {"USD"} : ApiCurrencyRatesPut(c, 3)
    \/ \E item \in OrderItem : ApiOrderCalculate(<<item>>, DefaultCoefficient)
    \/ \E item \in OrderItem, s \in {1, 3} :
          ApiOrderCalculateSupplier(<<item>>, s, DefaultCoefficient)
    \/ Analysis
    \/ CacheExpire
    \/ \E s2 \in {<<>>, <<3>>}, show_all \in BOOLEAN :
          ApiSupplierComparison(1, s2, show_all)

SpecPrice == Init /\ [][NextPrice]_vars

\* orders of one or more lines, for a part with prices and for one without
OrderInputs ==
    UNION {[1..k -> [brand : {<<"b">>}, article : Articles, catalog_weight : {0},
                     sale_price : {<<2000>>}]] : k \in 1..MaxOrderLines}

NextOrder ==
    \/ \E s \in {1, 3} : UploadFile(s, 1, <<PriceRow(1)>>)
    \/ \E i \in 1..Len(price_lists) : TogglePriceList(i)
    \/ \E order \in OrderInputs : ApiOrderCalculate(order, DefaultCoefficient)
    \/ \E order \in OrderInputs, s \in {1, 3} :
          ApiOrderCalculateSupplier(order, s, DefaultCoefficient)

SpecOrder == Init /\ [][NextOrder]_vars

\* the price lists of the region China for one part, as <<supplier, upload
\* date, price>>: supplier A at two dates, suppliers D and B at the later one
RegionUploads ==
    {<<1, 50, 100>>, <<1, 150, 90>>, <<4, 150, 95>>, <<2, 150, 1000>>}

\* the day on which price lists are analysed: lists of day 50 are older than
\* the freshness window, lists of day 150 are not
AnalysisDays == {1400}

\* the suppliers of one region upload and toggle lists of one part; orders
\* and price-list analyses read them
NextRegion ==
    \/ \E u \in RegionUploads :
          UploadFileWithin(MaxRegionLists, u[1], u[2], <<PriceRow(u[3])>>)
    \/ \E i \in 1..Len(price_lists) : TogglePriceList(i)
    \/ \E item \in {i \in OrderItem : i.sale_price # <<>>} :
          ApiOrderCalculate(<<item>>, DefaultCoefficient)
    \/ \E i \in 1..Len(price_lists), today \in AnalysisDays :
          PriceListAnalysis(i, today)

SpecRegion == Init /\ [][NextRegion]_vars

\* the price lists of two suppliers of China quoting in USD, in hundredths of
\* a dollar: 10 and then 9 from A, 9.5 and 9 from D
LandedUploads ==
    {<<1, 50, 1000>>, <<1, 150, 900>>, <<4, 150, 950>>, <<4, 150, 900>>}

\* the order line of the part (b, X) weighing 2 kg
LandedOrderItem ==
    [brand |-> <<"b">>, article |-> "X", catalog_weight |-> 2,
     sale_price |-> <<200000>>]

\* two suppliers of one region and one currency upload lists of one part, the
\* region's delivery rule is entered in hundredths of a rouble, and orders are
\* priced
NextLanded ==
    \/ \E u \in LandedUploads :
          UploadFileWithin(MaxRegionLists, u[1], u[2], <<PriceRow(u[3])>>)
    \/ ApiDeliveryCostsPut("China", 15000, 50000)
    \/ ApiOrderCalculate(<<LandedOrderItem>>, DefaultCoefficient)

SpecLanded == Init /\ [][NextLanded]_vars

\* delivery rules below and above the default one
DeliveryRules == [cost_per_kg : {50, 100, 150, 200}, min_cost : {100, 300, 500, 700}]

\* the cost functions applied to weights, rules, amounts and currencies, with
\* rates recorded for the base currency code and for another currency
NextCost ==
    \/ \E c \in {"RUB", "USD"}, rate \in {2, 3} : ApiCurrencyRatesPost(c, rate)
    \/ \E weight \in 0..MaxWeight, rule \in {<<>>} \cup {<<d>> : d \in DeliveryRules} :
          CalculateDeliveryCost(weight, rule)
    \/ \E price \in 1..MaxAmount, c \in {"RUB", "USD"}, delivery_cost \in {0, 500},
          coefficient \in {1000, DefaultCoefficient} :
          ConvertToRub(price, c, delivery_cost, coefficient)

SpecCost == Init /\ [][NextCost]_vars

\* the price lists of three suppliers: A quotes 100 and later 120, D of the
\* same region quotes 95, E of Germany quotes 100
SupplierUploads ==
    {<<1, 50, 100>>, <<1, 150, 120>>, <<4, 150, 95>>, <<5, 150, 100>>}

\* the order line of the part (b, X) weighing 2 kg
SupplierOrderItem ==
    [brand |-> <<"b">>, article |-> "X", catalog_weight |-> 2,
     sale_price |-> <<>>]

\* the suppliers whose prices an order is asked at
NamedSuppliers == {1, 4, 5}

\* suppliers upload and toggle lists of one part, and orders are priced at
\* one named supplier
NextSupplier ==
    \/ \E u \in SupplierUploads :
          UploadFileWithin(MaxRegionLists, u[1], u[2], <<PriceRow(u[3])>>)
    \/ \E i \in 1..Len(price_lists) : TogglePriceList(i)
    \/ \E s \in NamedSuppliers :
          ApiOrderCalculateSupplier(<<SupplierOrderItem>>, s, DefaultCoefficient)

SpecSupplier == Init /\ [][NextSupplier]_vars

\* a price-list row of the brand b
ArticleRow(article, price) == [PriceRow(price) EXCEPT !.article = article]

\* the price lists of supplier A on three days, with the parts X and Y, and a
\* list of supplier D
PreviousUploads ==
    {[supplier_id |-> 1, upload_date |-> 50, rows |-> <<ArticleRow("X", 100)>>],
     [supplier_id |-> 1, upload_date |-> 100, rows |-> <<ArticleRow("Y", 80)>>],
     [supplier_id |-> 1, upload_date |-> 150,
      rows |-> <<ArticleRow("X", 90), ArticleRow("Y", 85)>>],
     [supplier_id |-> 4, upload_date |-> 100, rows |-> <<ArticleRow("X", 70)>>]}

\* suppliers upload and toggle lists of two parts, and lists are analysed
NextPrevious ==
    \/ \E u \in PreviousUploads :
          UploadFileWithin(MaxRegionLists, u.supplier_id, u.upload_date, u.rows)
    \/ \E i \in 1..Len(price_lists) : TogglePriceList(i)
    \/ \E i \in 1..Len(price_lists), today \in AnalysisDays :
          PriceListAnalysis(i, today)

SpecPrevious == Init /\ [][NextPrevious]_vars

\* price lists and catalog files create the parts of one brand, price lists
\* are toggled and catalog items are deleted
NextDelete ==
    \/ \E a \in Articles : UploadFile(1, 1, <<ArticleRow(a, 1)>>)
    \/ \E a \in Articles :
          ApiCatalogUpload(<<[brand |-> <<"b">>, main_article |-> a,
                              additional_article |-> <<"">>, name |-> <<>>,
                              weight |-> <<>>]>>)
    \/ \E i \in 1..Len(price_lists) : TogglePriceList(i)
    \/ \E i \in 1..Len(parts_catalog) : ApiCatalogItemDelete(i)

SpecDelete == Init /\ [][NextDelete]_vars

\* the price lists of a supplier of China (4 USD: landed 880 at a coefficient
\* of 1) and of a supplier of Japan (500 JPY: landed 1000)
ProfitUploads == {<<1, 4>>, <<3, 500>>}

\* target sale prices around 115 % of the two landed costs
ProfitSalePrices == {1011, 1012, 1013, 1150, 1151}

\* the coefficient 1, in thousandths
UnitCoefficient == 1000

\* price lists are uploaded and toggled, and an order line is priced at target
\* sale prices below, at and above a profit of 15 %
NextProfit ==
    \/ \E u \in ProfitUploads : UploadFile(u[1], 1, <<PriceRow(u[2])>>)
    \/ \E i \in 1..Len(price_lists) : TogglePriceList(i)
    \/ \E sale \in ProfitSalePrices :
          ApiOrderCalculate(<<[brand |-> <<"b">>, article |-> "X",
                               catalog_weight |-> 0, sale_price |-> <<sale>>]>>,
                            UnitCoefficient)

SpecProfit == Init /\ [][NextProfit]_vars

\* one brand as price lists and orders write it
RawBrandNames == {<<"b">>, <<"B">>, <<" ", "b">>}

\* a supplier uploads lists that name one brand in several ways, and orders
\* that name it in the same ways are priced
NextIdentity ==
    \/ \E n \in RawBrandNames :
          UploadFile(1, 1, <<[PriceRow(1) EXCEPT !.brand = n]>>)
    \/ \E i \in 1..Len(price_lists) : TogglePriceList(i)
    \/ \E n \in RawBrandNames :
          ApiOrderCalculate(<<[brand |-> n, article |-> "X", catalog_weight |-> 0,
                               sale_price |-> <<>>]>>, DefaultCoefficient)
    \/ \E n \in RawBrandNames :
          ApiOrderCalculateSupplier(<<[brand |-> n, article |-> "X",
                                       catalog_weight |-> 0, sale_price |-> <<>>]>>,
                                    1, DefaultCoefficient)

SpecIdentity == Init /\ [][NextIdentity]_vars

----------------------------------------------------------------------------
(* Claims about the brand directory *)

\* C2: once get_or_create_brand has been called with a name, every later call
\* with a name that differs only in letter case or surrounding whitespace
\* returns the id of the first call and creates no brand row.
C2_SameBrandForCaseAndWhitespace ==
    (response.op = "get_or_create_brand" /\ response.repeated) =>
        /\ ~response.raised
        /\ ~response.created
        /\ response.brand_id = first_brand[NormalizedKey(response.name)]

\* the brands that own a normalized key, by display name or by synonym
OwnersOfKey(k) ==
    {i \in 1..Len(brands) : NormalizedKey(brands[i]) = k}
    \cup {t.brand_id : t \in {u \in brand_synonyms : NormalizedKey(u.synonym_name) = k}}

\* C10: every normalized key (trimmed, upper-cased) maps to exactly one brand,
\* a brand's own normalized display name counting as a synonym of itself.
C10_KeyMapsToOneBrand ==
    \A k \in Keys : Cardinality(OwnersOfKey(k)) <= 1

----------------------------------------------------------------------------
(* Claims about the catalog *)

IngestionOps ==
    {"upload_file", "api_catalog_upload", "api_expected_prices_upload",
     "api_sales_statistics_upload"}

\* C1: after any sequence of ingestion operations, resolving the same
\* (brand, article) pair again returns the Part id of its first resolution, and
\* re-ingesting an identical price-list row set creates no additional part rows.
C1_SamePartOnReingestion ==
    response.op \in IngestionOps =>
        /\ \A i \in 1..Len(response.resolved) :
              response.resolved[i].part_id =
                  first_part[<<response.resolved[i].brand, response.resolved[i].article>>]
        /\ response.reingested => response.added_count = 0

\* the descriptive fields of the parts of P that are populated keep their value in Q
PopulatedFieldsKept(P, Q) ==
    \A i \in 1..Len(P) :
        /\ P[i].name_ru # <<>> => Q[i].name_ru = P[i].name_ru
        /\ P[i].weight # <<>> => Q[i].weight = P[i].weight
        /\ P[i].additional_article # <<>> =>
              Q[i].additional_article = P[i].additional_article

\* C8 as stated: whichever ingestion meets an existing part, a field that has
\* been populated keeps the value it was first given.
C8_NoIngestionOverwrites ==
    [][PopulatedFieldsKept(parts_catalog, parts_catalog')]_vars

\* C8: a price-list upload that meets an existing part writes only the fields
\* whose stored value is empty; every populated field keeps its value.
C8_PriceListUploadFillsOnlyEmpty ==
    [][response'.op = "upload_file" =>
          PopulatedFieldsKept(parts_catalog, parts_catalog')]_vars

\* a price-list row carrying a name met a part that holds another name, and
\* the part still holds it
C8_Witness ==
    /\ response.op = "upload_file"
    /\ ~response.raised
    /\ response.added_count = 0
    /\ response.rows[1].name # <<>>
    /\ parts_catalog[response.resolved[1].part_id].name_ru
          \notin {<<>>, response.rows[1].name}

\* C9: no two Part rows share the same (brand id, main article code).
C9_BrandArticleUnique ==
    \A i, j \in 1..Len(parts_catalog) :
        (/\ parts_catalog[i].brand_id = parts_catalog[j].brand_id
         /\ parts_catalog[i].main_article = parts_catalog[j].main_article) => i = j

----------------------------------------------------------------------------
(* Claims about price aggregation *)

\* the lines of an order-pricing response
OrderLines ==
    IF response.op = "api_order_calculate"
    THEN {response.items[i] : i \in 1..Len(response.items)}
    ELSE {}

\* the lines of a single-supplier pricing response
SupplierOrderLines ==
    IF response.op = "api_order_calculate_supplier"
    THEN {response.items[i] : i \in 1..Len(response.items)}
    ELSE {}

\* a price in the base currency at the rates a pricing call read
Converted(r, rates_dict) ==
    IF r.currency = "RUB" THEN r.price
    ELSE r.price * (IF r.currency \in DOMAIN rates_dict THEN rates_dict[r.currency] ELSE 1)

\* C3: the row get_best_region_price returns for a region has, among the rows
\* retained for the suppliers of that region, a minimal price converted to
\* the base currency, also when the suppliers quote in different currencies.
C3_BestInRegionMinimalConverted ==
    \A line \in OrderLines :
        \A n \in DOMAIN line.regions :
            LET data == line.regions[n] IN
            data.observation # <<>> =>
                \A q \in line.lsp[n] :
                    Converted(data.observation[1], response.currency_rates)
                        <= Converted(q, response.currency_rates)

\* the most recently recorded rows of a currency
MostRecentRates(currency) ==
    {r \in RowsOf(currency_rates) :
        /\ r.currency_code = currency
        /\ \A q \in RowsOf(currency_rates) :
              q.currency_code = currency => q.created_at <= r.created_at}

\* the observations an order-pricing response priced
PricedObservations ==
    CASE response.op = "api_order_calculate" ->
            UNION {{line.regions[n].observation[1] :
                       n \in {m \in DOMAIN line.regions :
                                 line.regions[m].observation # <<>>}}
                   : line \in OrderLines}
      [] response.op = "api_order_calculate_supplier" ->
            UNION {{line.specific_supplier.observation[i] :
                       i \in 1..Len(line.specific_supplier.observation)}
                   : line \in SupplierOrderLines}
      [] OTHER -> {}

LatestPerKey(lsp, rows, key) ==
    /\ lsp \subseteq rows
    /\ \A r \in rows : Cardinality({l \in lsp : key[l] = key[r]}) = 1
    /\ \A l \in lsp, r \in rows : key[l] = key[r] => r.upload_date <= l.upload_date

\* C5: the rows an aggregation retains hold, for every supplier with an active
\* observation of the part, exactly one observation of that supplier, none of
\* the supplier's other active observations of the part is later, and the row
\* compared and returned is one of the retained rows.
C5_LatestPerSupplier ==
    /\ \A line \in OrderLines :
          \A n \in DOMAIN line.regions :
              /\ LatestPerKey(line.lsp[n],
                              {r \in Observations :
                                  /\ r.is_active
                                  /\ r.brand = line.item.brand
                                  /\ r.main_article = line.item.article
                                  /\ r.region = n},
                              [r \in Observations |-> r.supplier_id])
              /\ line.regions[n].observation # <<>> =>
                    line.regions[n].observation[1] \in line.lsp[n]
    /\ (response.op = "analysis" /\ ~response.cached) =>
          /\ LatestPerKey(response.lsp, {r \in Observations : r.is_active},
                          [r \in Observations |-> <<r.part_id, r.supplier_id>>])
          /\ response.parts \subseteq response.lsp

\* a supplier's older and cheaper active observation was passed over
C5_Witness ==
    /\ \E line \in OrderLines, n \in {OrderRegions[i] : i \in 1..Len(OrderRegions)} :
          /\ line.regions[n].observation # <<>>
          /\ \E q \in Observations :
                LET r == line.regions[n].observation[1] IN
                /\ q.is_active
                /\ q.supplier_id = r.supplier_id
                /\ q.part_id = r.part_id
                /\ q.upload_date < r.upload_date
                /\ q.price < r.price

\* the observations an aggregation's response was drawn from
DrawnFrom ==
    CASE response.op \in {"api_order_calculate", "api_order_calculate_supplier"} ->
            PricedObservations
      [] response.op = "analysis" -> response.parts
      [] response.op = "api_supplier_comparison" ->
            {j.s1 : j \in response.rows}
            \cup {j.s2[1] : j \in {x \in response.rows : x.s2 # <<>>}}
      [] OTHER -> {}

\* C6: no aggregation result a call returns is drawn from an observation of a
\* price list that is inactive at the time of the call.
C6_InactiveBatchExcluded ==
    \A r \in DrawnFrom : price_lists[r.price_list_id].is_active

\* C7: a priced slot whose currency is not the base currency and has no
\* recorded rate carries no numeric landed cost.
C7_MissingRateYieldsNull ==
    /\ \A line \in OrderLines :
          \A n \in DOMAIN line.regions :
              LET data == line.regions[n] IN
              (/\ data.observation # <<>>
               /\ data.observation[1].currency # "RUB"
               /\ MostRecentRates(data.observation[1].currency) = {})
              => data.price_rub = <<>>
    /\ \A line \in SupplierOrderLines :
          LET data == line.specific_supplier IN
          (/\ data.observation # <<>>
           /\ data.observation[1].currency # "RUB"
           /\ MostRecentRates(data.observation[1].currency) = {})
          => data.price_rub = <<>>

----------------------------------------------------------------------------
(* Claims about order pricing *)

\* the regions of an order line that carry a landed cost
RegionsWithData(line) ==
    {n \in DOMAIN line.regions : line.regions[n].price_rub # <<>>}

\* C11: whenever a region of an order line has a landed cost, exactly one
\* region of the line is marked best, it is a region with data, and no region
\* with data has a lower landed cost.
C11_ExactlyOneBestRegion ==
    \A line \in OrderLines :
        RegionsWithData(line) # {} =>
            \E b \in RegionsWithData(line) :
                /\ line.regions[b].is_best_price
                /\ \A n \in DOMAIN line.regions :
                      line.regions[n].is_best_price => n = b
                /\ \A n \in RegionsWithData(line) :
                      line.regions[b].price_rub[1] <= line.regions[n].price_rub[1]

\* the active observations an order line's part has in a region
Qualifying(item, n) ==
    {r \in Observations :
        /\ r.is_active
        /\ r.brand = item.brand
        /\ r.main_article = item.article
        /\ r.region = n}

\* C12: an order-pricing response holds one result per line of the request
\* and per order region; a slot without a qualifying observation (no such
\* part, or no active price in the region) is null, and every slot with one
\* is priced from it.
C12_OneResultPerLineAndRegion ==
    response.op = "api_order_calculate" =>
        /\ Len(response.items) = Len(response.request)
        /\ \A i \in 1..Len(response.items) :
              LET line == response.items[i] IN
              /\ line.item = response.request[i]
              /\ DOMAIN line.regions = {OrderRegions[k] : k \in 1..Len(OrderRegions)}
              /\ \A n \in DOMAIN line.regions :
                    IF Qualifying(line.item, n) = {}
                    THEN /\ line.regions[n].price_rub = <<>>
                         /\ line.regions[n].price_original = <<>>
                         /\ line.regions[n].supplier = <<>>
                    ELSE /\ line.regions[n].price_rub # <<>>
                         /\ line.regions[n].observation # <<>>
                         /\ line.regions[n].observation[1] \in Qualifying(line.item, n)

\* a line without a catalog part came before a line that was priced, in a
\* region, while another region of that line had no observation
C12_Witness ==
    /\ response.op = "api_order_calculate"
    /\ Len(response.items) = 2
    /\ \A n \in DOMAIN response.items[1].regions :
          response.items[1].regions[n].price_rub = <<>>
    /\ \A i \in 1..Len(parts_catalog) :
          parts_catalog[i].main_article # response.request[1].article
    /\ \E n, m \in DOMAIN response.items[2].regions :
          /\ response.items[2].regions[n].price_rub # <<>>
          /\ response.items[2].regions[m].price_rub = <<>>

----------------------------------------------------------------------------
(* Claims about the best price of a region *)

\* the rows of the last price-list analysis
AnalysisData ==
    IF response.op = "price_list_analysis" THEN response.analysis_data ELSE {}

\* the active observations of the analysed part that other suppliers of the
\* analysed list's region made
MarketOf(row) ==
    {o \in Observations :
        /\ o.is_active
        /\ o.part_id = row.current.part_id
        /\ o.region = row.current.region
        /\ o.supplier_id # row.current.supplier_id}

\* C13: the regional best observation that a price-list analysis returns is
\* never older than the freshness window, however low the price of an older
\* observation is.
C13_FreshnessWindow ==
    \A row \in AnalysisData :
        row.best_regional # <<>> =>
            row.best_regional[1].upload_date >= response.today - FreshnessDays

\* an analysis returned a regional best although an older observation of
\* the region, outside the window, is cheaper
C13_Witness ==
    \E row \in AnalysisData :
        /\ row.best_regional # <<>>
        /\ \E o \in MarketOf(row) :
              /\ o.upload_date < response.today - FreshnessDays
              /\ PriceRubSql(o)[1] < PriceRubSql(row.best_regional[1])[1]

\* the active observations are those of the scenario: 100 and then 90 from
\* supplier A, 95 from supplier D of the same region and currency
ScenarioPosted ==
    {<<o.supplier_id, o.upload_date, o.price>> : o \in {q \in Observations : q.is_active}}
        = {<<1, 50, 100>>, <<1, 150, 90>>, <<4, 150, 95>>}

\* C14: a price-list analysis never returns an observation of the analysed
\* list's supplier as the regional best; it returns a cheapest one of the
\* latest observations of the region's other suppliers.  With 100 and later 90
\* from one supplier and 95 from another, order pricing (no exclusion)
\* returns the 90 and the analysis of the first supplier's list returns the 95.
C14_ExcludedSupplierNeverReturned ==
    /\ \A row \in AnalysisData :
          LET market == {o \in MarketOf(row) :
                            o.upload_date >= response.today - FreshnessDays}
              retained == {l \in response.rmp : l.part_id = row.current.part_id}
          IN  /\ LatestPerKey(retained, market, [o \in Observations |-> o.supplier_id])
              /\ (\E l \in retained : PriceRubSql(l) # <<>>) => row.best_regional # <<>>
              /\ row.best_regional # <<>> =>
                    /\ row.best_regional[1] \in retained
                    /\ row.best_regional[1].supplier_id # row.current.supplier_id
                    /\ \A l \in retained :
                          PriceRubSql(l) # <<>> =>
                              PriceRubSql(row.best_regional[1])[1] <= PriceRubSql(l)[1]
    /\ ScenarioPosted =>
          /\ \A line \in OrderLines :
                /\ line.regions["China"].observation # <<>>
                /\ line.regions["China"].observation[1].supplier_id = 1
                /\ line.regions["China"].observation[1].price = 90
          /\ \A row \in AnalysisData :
                row.current.supplier_id = 1 =>
                    /\ row.best_regional # <<>>
                    /\ row.best_regional[1].supplier_id = 4
                    /\ row.best_regional[1].price = 95

\* the scenario is posted and the list with the 90 has been analysed
C14_Witness ==
    /\ ScenarioPosted
    /\ \E row \in AnalysisData : row.current.price = 90 /\ row.best_regional # <<>>

\* C15: of the retained observations that tie with the returned one on the
\* converted price none is more recent, and of those that also tie on the
\* timestamp none has a smaller supplier name (the names are in the order of
\* the suppliers' ids).
C15_TieBreakBySupplierName ==
    \A line \in OrderLines :
        \A n \in DOMAIN line.regions :
            line.regions[n].observation # <<>> =>
                LET best == line.regions[n].observation[1] IN
                \A l \in line.lsp[n] :
                    Converted(l, response.currency_rates)
                            = Converted(best, response.currency_rates) =>
                        /\ l.upload_date <= best.upload_date
                        /\ l.upload_date = best.upload_date =>
                              best.supplier_id <= l.supplier_id

----------------------------------------------------------------------------
(* Claims about the landed cost *)

\* the scenario in hundredths: supplier A quoted 10 and then 9 USD, supplier D
\* of the same region 9.5 USD, USD is at 95, and the region's delivery rule is
\* 150 per kg with a minimum of 500
LandedScenario ==
    /\ {<<o.supplier_id, o.upload_date, o.price>> : o \in {q \in Observations : q.is_active}}
           = {<<1, 50, 1000>>, <<1, 150, 900>>, <<4, 150, 950>>}
    /\ delivery_costs["China"] = [cost_per_kg |-> 15000, min_cost |-> 50000]
    /\ get_currency_rates(currency_rates)["USD"] = 95

\* C16: in the scenario an order line of 2 kg priced with the coefficient
\* 0.835 gets supplier A's observation of 9 for the region, with the landed
\* cost (9 * 95 + 500) / 0.835 = 1622.75, which is below the landed cost
\* 1679.64 of supplier D's 9.5.
C16_ScenarioLandedCost ==
    LandedScenario =>
        \A line \in OrderLines :
            (line.item.catalog_weight = 2 /\ response.coefficient = 835) =>
                /\ line.regions["China"].observation # <<>>
                /\ line.regions["China"].observation[1].supplier_id = 1
                /\ line.regions["China"].observation[1].price = 900
                /\ line.regions["China"].price_rub = <<162275>>
                /\ \A l \in line.lsp["China"] :
                      l.supplier_id = 4 =>
                          /\ Converted(l, response.currency_rates) = 950 * 95
                          /\ ((Converted(l, response.currency_rates) + 50000) * 1000)
                                 \div 835 = 167964
                          /\ line.regions["China"].price_rub[1] < 167964

\* the scenario is posted and an order line of 2 kg has been priced
C16_Witness ==
    /\ LandedScenario
    /\ \E line \in OrderLines :
          /\ line.item.catalog_weight = 2
          /\ \E l \in line.lsp["China"] : l.supplier_id = 4

\* C17: calculate_delivery_cost returns 0 when the region has no rule, and
\* otherwise the greater of the rule's minimum and weight times its cost per kg.
C17_DeliveryCostIsMax ==
    response.op = "calculate_delivery_cost" =>
        IF response.delivery_data = <<>> THEN response.result = 0
        ELSE LET rule == response.delivery_data[1]
                 by_weight == response.weight * rule.cost_per_kg
             IN  /\ response.result >= rule.min_cost
                 /\ response.result >= by_weight
                 /\ response.result \in {rule.min_cost, by_weight}

\* a delivery cost was computed where the minimum exceeds the cost by weight
C17_Witness ==
    /\ response.op = "calculate_delivery_cost"
    /\ response.delivery_data # <<>>
    /\ response.weight * response.delivery_data[1].cost_per_kg
           < response.delivery_data[1].min_cost
    /\ response.result = response.delivery_data[1].min_cost

\* C18: convert_to_rub of an amount in the base currency with no delivery
\* cost and the coefficient 1 returns the amount, whatever rates are recorded.
C18_BaseCurrencyRoundTrip ==
    (/\ response.op = "convert_to_rub"
     /\ response.currency = "RUB"
     /\ response.delivery_cost = 0
     /\ response.coefficient = 1000)
        => response.result = response.price

\* a base-currency amount was converted while a rate other than 1 was
\* recorded for the base currency code
C18_Witness ==
    /\ response.op = "convert_to_rub"
    /\ response.currency = "RUB"
    /\ response.delivery_cost = 0
    /\ response.coefficient = 1000
    /\ "RUB" \in DOMAIN response.currency_rates
    /\ response.currency_rates["RUB"] # 1
    /\ response.result = response.price

----------------------------------------------------------------------------
(* Claims about blank names and concurrent calls *)

\* C19: get_or_create_brand called with an empty or whitespace-only name
\* returns no brand id and leaves brands and brand_synonyms as they were, so
\* that no brand has an empty display name; called with any other name it
\* returns a brand id.
C19_BlankNameRejected ==
    /\ \A i \in 1..Len(brands) : PyStrip(brands[i]) # <<>>
    /\ response.op = "get_or_create_brand" =>
          IF PyStrip(response.name) = <<>>
          THEN response.brand_id = 0 /\ ~response.created
          ELSE response.brand_id # 0 /\ ~response.raised

\* both callers have left get_or_create_part_in_catalog
BothReturned == \A c \in Callers : calls[c].pc \in {"done", "failed"}

\* C20: when two calls of get_or_create_part_in_catalog for the same brand,
\* started before either had returned, have both returned, neither has failed,
\* both have the same brand id and the brand has one row; if they were for the
\* same article, both have the same part id and the part has one row.
C20_ConcurrentCallsConverge ==
    (BothReturned /\ calls[1].brand_name = calls[2].brand_name) =>
        /\ \A c \in Callers : calls[c].pc = "done" /\ calls[c].brand_id # 0
        /\ calls[1].brand_id = calls[2].brand_id
        /\ Cardinality({i \in 1..Len(brands) :
                            NormalizedKey(brands[i]) = NormalizedKey(calls[1].brand_name)}) = 1
        /\ calls[1].article = calls[2].article =>
              /\ calls[1].part_id = calls[2].part_id
              /\ Cardinality({i \in 1..Len(parts_catalog) :
                                  /\ parts_catalog[i].brand_id = calls[1].brand_id
                                  /\ parts_catalog[i].main_article = calls[1].article}) = 1

----------------------------------------------------------------------------
(* Claims about batches and single-supplier pricing *)

\* the rows of the last spreadsheet batch
BatchRows ==
    IF response.op \in {"upload_file", "api_catalog_upload"}
    THEN {response.rows[i] : i \in 1..Len(response.rows)}
    ELSE {}

\* processing the row on the stored tables raises no exception
RowSucceeds(row) ==
    \A o \in get_or_create_brand(PyStrip(row.brand), brands, brand_synonyms) : ~o.raised

\* the stored parts that carry the row's brand and article
PartsOfRow(row, article) ==
    {i \in 1..Len(parts_catalog) :
        /\ parts_catalog[i].brand_id
               \in find_brand_by_name(PyStrip(row.brand), brands, brand_synonyms)
        /\ \/ parts_catalog[i].main_article = article
           \/ parts_catalog[i].additional_article = <<article>>}

\* C21: after a spreadsheet batch, every row of it that is processed without
\* an exception has its part stored, and for a price list also its price
\* observation, whether or not another row of the batch raised an exception.
C21_RowExceptionKeepsOtherRows ==
    \A row \in BatchRows :
        RowSucceeds(row) =>
            IF response.op = "upload_file"
            THEN \E i \in PartsOfRow(row, row.article) :
                     \E k \in 1..Len(prices) :
                         prices[k].part_id = i /\ prices[k].price = row.price
            ELSE PartsOfRow(row, row.main_article) # {}

\* the active observations of the named supplier for the part of an order line
SupplierObservations(line) ==
    {r \in Observations :
        /\ r.supplier_id = response.supplier_id
        /\ r.is_active
        /\ r.brand = line.item.brand
        /\ r.main_article = line.item.article}

\* C22: single-supplier pricing prices every order line from an active
\* observation of the named supplier for the part that no other active
\* observation of that supplier is later than, whatever other suppliers ask,
\* and reports a line without data when that supplier has no active
\* observation of the part.
C22_NamedSupplierLatestObservation ==
    \A line \in SupplierOrderLines :
        LET data == line.specific_supplier
            own == SupplierObservations(line)
        IN  IF own = {}
            THEN ~data.has_data /\ data.price_rub = <<>> /\ data.price_original = <<>>
            ELSE /\ data.has_data
                 /\ data.observation # <<>>
                 /\ data.observation[1] \in own
                 /\ \A q \in own : q.upload_date <= data.observation[1].upload_date
                 /\ data.price_original = <<data.observation[1].price>>
                 /\ data.supplier = Suppliers[response.supplier_id].name

\* a line priced from the later, dearer observation of the named supplier
\* while another supplier of the region has a cheaper active observation
C22_Witness ==
    \E line \in SupplierOrderLines :
        LET own == SupplierObservations(line)
        IN  /\ line.specific_supplier.has_data
            /\ \E r \in own : r.price < line.specific_supplier.observation[1].price
            /\ \E q \in Observations :
                   /\ q.is_active /\ q.supplier_id # response.supplier_id
                   /\ q.region = Suppliers[response.supplier_id].region
                   /\ q.price < line.specific_supplier.observation[1].price

\* a line without data although another supplier has an active observation
C22_WitnessNoData ==
    \E line \in SupplierOrderLines :
        /\ ~line.specific_supplier.has_data
        /\ \E q \in Observations : q.is_active /\ q.main_article = line.item.article

\* the active observations of the analysed list's supplier for the part of
\* a row, made before the analysed list
EarlierOf(row) ==
    {o \in Observations :
        /\ o.is_active
        /\ o.supplier_id = row.current.supplier_id
        /\ o.part_id = row.current.part_id
        /\ o.upload_date < row.current.upload_date}

\* C23: the previous price of a row of a price-list analysis is an observation
\* of the same supplier and part in an active list, earlier than the analysed
\* list and not earlier than any other such observation; it is absent when
\* there is no such observation.
C23_PreviousPrice ==
    \A row \in AnalysisData :
        IF EarlierOf(row) = {}
        THEN row.previous = <<>> /\ row.change_vs_previous_percent = <<>>
        ELSE /\ row.previous # <<>>
             /\ row.previous[1] \in EarlierOf(row)
             /\ \A o \in EarlierOf(row) : o.upload_date <= row.previous[1].upload_date

\* an analysis of a list with two parts: one row has a previous price, the
\* other has none although an earlier list of the supplier, now inactive,
\* holds its part
C23_Witness ==
    /\ \E row \in AnalysisData : row.previous # <<>>
    /\ \E row \in AnalysisData :
          /\ row.previous = <<>>
          /\ \E o \in Observations :
                 /\ o.part_id = row.current.part_id
                 /\ o.supplier_id = row.current.supplier_id
                 /\ ~o.is_active
                 /\ o.upload_date < row.current.upload_date

\* C24: no step changes the rate of a row of currency_rates that exists
\* before the step; every such row is still there, with its rate, after it.
C24_RateRowsNeverChange ==
    [][\A i \in 1..Len(currency_rates) :
          /\ i \in 1..Len(currency_rates')
          /\ currency_rates'[i].currency_code = currency_rates[i].currency_code
          /\ currency_rates'[i].rate_to_rub = currency_rates[i].rate_to_rub]_vars

\* C25: every stored price row references a row of parts_catalog that has
\* not been deleted and a row of price_lists; so a part that a price row
\* references is never deleted.
C25_PricesReferenceExistingRows ==
    \A k \in 1..Len(prices) :
        /\ prices[k].part_id \in 1..Len(parts_catalog)
        /\ parts_catalog[prices[k].part_id] # DeletedPart
        /\ prices[k].price_list_id \in 1..Len(price_lists)

\* the deletion of a part with prices was refused after a part without
\* prices had been deleted
C25_Witness ==
    /\ response.op = "api_catalog_item_delete"
    /\ response.status = 400
    /\ \E k \in 1..Len(prices) : prices[k].part_id = response.part_id
    /\ \E i \in 1..Len(parts_catalog) : parts_catalog[i] = DeletedPart

\* C26: in every region of an order line that has a landed cost, when the
\* line carries a target sale price, is_high_profit is true exactly when the
\* profit (sale price / landed cost - 1) * 100 exceeds 15; at 15 and below it
\* is false.
C26_HighProfitAbove15 ==
    \A line \in OrderLines :
        line.item.sale_price # <<>> =>
            \A n \in RegionsWithData(line) :
                LET landed == line.regions[n].price_rub[1]
                    sale == line.item.sale_price[1]
                IN  line.regions[n].is_high_profit
                        <=> (sale - landed) * 100 > 15 * landed

\* a line whose profit is exactly 15 % in one region, which is not marked,
\* and above 15 % in another, which is marked
C26_Witness ==
    \E line \in OrderLines :
        /\ line.item.sale_price # <<>>
        /\ \E n \in RegionsWithData(line) :
              /\ (line.item.sale_price[1] - line.regions[n].price_rub[1]) * 100
                     = 15 * line.regions[n].price_rub[1]
              /\ ~line.regions[n].is_high_profit
        /\ \E n \in RegionsWithData(line) : line.regions[n].is_high_profit

\* the landed cost of an observation as order pricing computes it:
\* (price * rate + delivery cost) / coefficient
LandedCostOf(o, weight, coefficient) ==
    convert_to_rub(o.price, o.currency, get_currency_rates(currency_rates),
                   calculate_delivery_cost(weight,
                       IF o.region \in DOMAIN delivery_costs
                       THEN <<delivery_costs[o.region]>> ELSE <<>>),
                   coefficient)

\* the catalog weight of an observation's part, 0 when it has none
CatalogWeightOf(o) ==
    IF parts_catalog[o.part_id].weight = <<>> THEN 0
    ELSE parts_catalog[o.part_id].weight[1]

\* C27: the value reported for an observation is its landed cost
\* (price * rate + delivery cost) / coefficient both where an order is priced
\* across regions and where the best-price analysis compares the suppliers.
C27_SameComparableCost ==
    /\ \A line \in OrderLines : \A n \in RegionsWithData(line) :
          line.regions[n].price_rub
              = <<LandedCostOf(line.regions[n].observation[1],
                               line.item.catalog_weight, response.coefficient)>>
    /\ (response.op = "analysis" /\ ~response.cached) =>
          \A r \in response.parts :
              PriceRubSql(r) = <<LandedCostOf(r, CatalogWeightOf(r), DefaultCoefficient)>>

\* C28: a step that answers an order-pricing call, across regions or for one
\* supplier, leaves brands, synonyms, parts, price lists, prices, rates and
\* delivery rules as they were, and its answer holds one result for every
\* line of the request, attached to that line.
C28_OrderPricingReadsOnly ==
    [][response'.op \in {"api_order_calculate", "api_order_calculate_supplier"} =>
          /\ UNCHANGED <<brands, brand_synonyms, parts_catalog, price_lists, prices,
                         currency_rates, delivery_costs>>
          /\ Len(response'.items) = Len(response'.request)
          /\ \A i \in 1..Len(response'.items) :
                response'.items[i].item = response'.request[i]]_vars

\* an order of two lines was priced for one supplier, with data for a line,
\* on tables that hold a brand, a part, a price list and a price
C28_Witness ==
    /\ response.op = "api_order_calculate_supplier"
    /\ Len(response.items) = 2
    /\ \E i \in 1..Len(response.items) : response.items[i].specific_supplier.has_data
    /\ Len(brands) > 0 /\ Len(parts_catalog) > 0
    /\ Len(price_lists) > 0 /\ Len(prices) > 0

\* the part that ingestion resolved the line's raw brand name and article to
\* has an active observation in region n
IngestedInRegion(item, n) ==
    /\ first_part[<<item.brand, item.article>>] # 0
    /\ \E o \in Observations :
          /\ o.part_id = first_part[<<item.brand, item.article>>]
          /\ o.is_active
          /\ o.region = n

\* C29: when a part was ingested under a raw brand name and has an active
\* observation in a region, an order line that carries the same raw brand
\* name and article gets a result with data for that region.
C29_OrderPricingUsesBrandIdentity ==
    \A line \in OrderLines :
        \A n \in DOMAIN line.regions :
            IngestedInRegion(line.item, n) => line.regions[n].price_rub # <<>>

\* C30: in single-supplier pricing, when the named supplier's region has a
\* delivery rule, the landed cost of a line with data is computed with that
\* rule's max(min_cost, weight * cost_per_kg), whatever the region is.
C30_SupplierLandedCostIncludesDelivery ==
    \A line \in SupplierOrderLines :
        LET data == line.specific_supplier
            region == Suppliers[response.supplier_id].region
        IN  (data.has_data /\ region \in DOMAIN delivery_costs) =>
                data.price_rub =
                    <<convert_to_rub(data.price_original[1], data.currency,
                                     response.currency_rates,
                                     Max(delivery_costs[region].min_cost,
                                         line.item.catalog_weight
                                             * delivery_costs[region].cost_per_kg),
                                     response.coefficient)>>

====
